---- MODULE Spec2Model ----
(***************************************************************************)
(* darbrrb: dar-based blu-ray redundant backup.                            *)
(*                                                                         *)
(* A model of the write-side scheduler Darbrrb._create, the burn step      *)
(* Darbrrb.burn, and the restore-side scheduler Darbrrb._extract /         *)
(* Darbrrb._obtain_recovery_set_files of src/darbrrb.py, together with the *)
(* sizing and naming functions of class Settings that they depend on.      *)
(*                                                                         *)
(* The scratch directory is a set of files; the disc directories           *)
(* __disc0001 .. __disc<D+K> are a function from 1..D+K to sets of files;  *)
(* everything that was flushed (a burned disc, or with -n a folder named   *)
(* after the disc title inside the scratch directory) is an entry of the   *)
(* sequence media.                                                         *)
(***************************************************************************)
EXTENDS Integers, Naturals, Sequences, FiniteSets, TLC

\* ---------------------------------------------------------------------
\* Bounds of the model
\* ---------------------------------------------------------------------
MaxDataDiscs == 2
MaxParityDiscs == 2
MaxSlicesPerDisc == 2
\* dar stops after at most this many slices
MaxSlices == 10
\* a restore is run only after backups of at most this many slices ...
MaxRestoreSlices == 3
\* ... and consists of at most this many slice requests
MaxRequests == 2
\* a restore of the whole backup is run after backups of at most this many
\* slices
MaxWholeRestoreSlices == 5
\* headers asked of headers_in_par2_file by its consumer
MaxYields == 3

\* ---------------------------------------------------------------------
\* Settings (class Settings)
\* ---------------------------------------------------------------------
reserve_space_KiB == 10240

\* disc_size_MiB * 1024: a disc with 6 KiB, respectively 20 KiB, beyond
\* the reserved space
DiscSizesKiB == {10246, 10260}

\* widths of the slice numbers given to dar as --min-digits
DigitWidths == {1, 2}

\* lengths of the base name given to dar -c: below and above the 23
\* characters that disc_title keeps of it
BaseNameLengths == {4, 24}

VARIABLES
    basename,   \* the base name of the archive (%b), a string
    settings,   \* the Settings object: data_discs, parity_discs,
                \* slices_per_disc, digits, disc_size_KiB, actually_burn
    env,        \* the external tools: how many volumes parchive writes per
                \* call, the order in which os.listdir returns names
    pc,         \* "dar": dar is writing the next slice; "hook": dar runs
                \* the -E hook (_create); "created": dar -c has ended;
                \* "failed": an exception ended the run
    created,    \* number of the slice dar wrote last
    happening,  \* %c of the pending or last hook call
    root,       \* files in the scratch directory itself (the cwd)
    discs,      \* files in the disc directories __disc0001 ...
    media,      \* flushed discs / folders, in the order of flushing
    calls,      \* external commands run by the last hook call, in order
    steps,      \* what the last _create call did to the disc directories
                \* while flushing, in order
    stats,      \* totals over the run: parchive a / growisofs-or-folder /
                \* parchive r
    encoded,    \* per slice number: in how many parchive a calls it was
                \* an input file
    moves,      \* per slice number: how often it was moved to a disc dir
    request,    \* the last _extract call: number, and what it found
    staged,     \* disc titles resolved by the last _extract call, in order
    nrequests,  \* number of _extract calls so far
    last_title, \* the last disc title computed on its own: the arguments
                \* and the string returned
    raised,     \* the class of the exception that ended the last hook run,
                \* "" when it returned
    scratch,    \* the scratch root as the filesystem has it: what kind of
                \* file it is, the free space of its filesystem, and
                \* what was there before any instance started
    main,       \* per instance of the program started as `darbrrb dar
                \* ...`: its arguments, position, cwd, exception, and the
                \* commands it has run
    stagings,   \* in a restore of the whole backup: per _extract call that
                \* staged a set, the set and the index files decoded
    derived,    \* a Settings object's digits: the _digits attribute, and
                \* the values its digits and slice_size_KiB properties
                \* returned when last read
    par2        \* headers_in_par2_file(f): the file, the generator's
                \* position in its code and in the file (start: where the
                \* running iteration of the outer loop began, -1 before
                \* the first), what it has yielded and at which offsets
                \* the packets yielded begin, and the exception raised

vars == <<basename, settings, env, pc, created, happening, root, discs,
          media, calls, steps, stats, encoded, moves, request, staged,
          nrequests, last_title, raised, scratch, main, stagings,
          derived, par2>>

data_discs == settings.data_discs
parity_discs == settings.parity_discs
slices_per_disc == settings.slices_per_disc

slices_per_set == data_discs * slices_per_disc

total_set_count == data_discs + parity_discs

\* (disc_size_KiB - reserve_space_KiB) // slices_per_disc
slice_size_not_counting_par_overhead_KiB ==
    (settings.disc_size_KiB - reserve_space_KiB) \div slices_per_disc

\* par_header_bytes = 96 + 120 * D; par_overhead_bytes = that * (1 + 1/D);
\* par_overhead_KiB = (par_overhead_bytes + 1024) // 1024
par_overhead_KiB ==
    (((96 + 120 * data_discs) * (data_discs + 1)) + 1024 * data_discs)
        \div (1024 * data_discs)

slice_size_KiB == slice_size_not_counting_par_overhead_KiB - par_overhead_KiB

\* no Settings property has been read
NotDerived == [_digits |-> 0, configured |-> 0, digits |-> 0,
               slice_size_KiB |-> 0, read |-> {}]

\* headers_in_par2_file has not been called
NoPar2 == [file |-> <<>>, pc |-> "none", tell |-> 0, x |-> <<>>, length |-> 0,
           start |-> 0, yielded |-> <<>>, offsets |-> <<>>, raised |-> ""]

\* ---------------------------------------------------------------------
\* File names
\* ---------------------------------------------------------------------
\* A file is a record; lo/hi/idx are 0 where the name has no such part.
\*   basename.<lo>.dar              a dar slice
\*   basename.<lo>-<hi>.par         a par index file
\*   basename.<lo>-<hi>.p<idx>      a par volume
\*   README.txt, the program copy, darrc
File(kind, lo, hi, idx) == [kind |-> kind, lo |-> lo, hi |-> hi, idx |-> idx]
Dar(n) == File("dar", n, 0, 0)
Par(lo, hi) == File("par", lo, hi, 0)
Vol(lo, hi, i) == File("vol", lo, hi, i)
Readme == File("README.txt", 0, 0, 0)
Program == File("darbrrb.py", 0, 0, 0)
Darrc == File("darrc", 0, 0, 0)

\* '__disc{:04d}'.format(disc) under the scratch root
disc_dir(disc) == File("__disc", disc, 0, 0)

RECURSIVE Decimal(_)
\* str(n): the decimal digits of n, most significant first
Decimal(n) == IF n < 10 THEN <<n>> ELSE Append(Decimal(n \div 10), n % 10)

RECURSIVE ZeroPad(_, _)
\* '{:0<w>}'.format(n) on the digits of n: pads on the left, never truncates
ZeroPad(ds, w) == IF Len(ds) >= w THEN ds ELSE ZeroPad(<<0>> \o ds, w)

\* number_format.format(n)
number_format(n) == ZeroPad(Decimal(n), settings.digits)

RECURSIVE StrLess(_, _)
\* a < b for the names basename.<a>.dar and basename.<b>.dar: character by
\* character; the '.' that follows the shorter number sorts before any digit
StrLess(a, b) ==
    IF a = <<>> THEN b # <<>>
    ELSE IF b = <<>> THEN FALSE
    ELSE IF a[1] # b[1] THEN a[1] < b[1]
    ELSE StrLess(Tail(a), Tail(b))

DarNameLess(n, m) == StrLess(number_format(n), number_format(m))

RECURSIVE SortedDarNumbers(_)
\* sorted(names) for names basename.<n>.dar, n in ns: string order
SortedDarNumbers(ns) ==
    IF ns = {} THEN <<>>
    ELSE LET first == CHOOSE n \in ns : \A m \in ns \ {n} : DarNameLess(n, m)
         IN  <<first>> \o SortedDarNumbers(ns \ {first})

\* sorted(glob.glob('*.dar')) in a directory, as slice numbers
sorted_dar_files(dir) ==
    SortedDarNumbers({f.lo : f \in {g \in dir : g.kind = "dar"}})

\* re.match(r'.*\.[pqr][0-9][0-9]$', f): volumes p00..p99, q00.., r00..r99
is_par_volume(f) == f.kind = "vol" /\ f.idx \div 100 < 3

VolBefore(f, g) ==
    \/ f.lo < g.lo
    \/ f.lo = g.lo /\ f.hi < g.hi
    \/ f.lo = g.lo /\ f.hi = g.hi /\ f.idx < g.idx

RECURSIVE ListdirOrder(_)
\* os.listdir returns the names in an order of the file system's choosing:
\* here by name, ascending or descending
ListdirOrder(fs) ==
    IF fs = {} THEN <<>>
    ELSE LET first == CHOOSE f \in fs : \A g \in fs \ {f} :
                          IF env.listdir_reversed THEN VolBefore(g, f)
                                                  ELSE VolBefore(f, g)
         IN  <<first>> \o ListdirOrder(fs \ {first})

\* par_volumes = [f for f in os.listdir() if re.match(...)]
par_volumes_in(dir) == ListdirOrder({f \in dir : is_par_volume(f)})

\* ---------------------------------------------------------------------
\* Disc titles
\* ---------------------------------------------------------------------
\* "{}-{:04d}-{:03d}".format(basename[:23], set_number_zb + 1,
\* disc_in_set_number_zb + 1): the two numbers of the title, one-based
disc_title(set_number_zb, disc_in_set_number_zb) ==
    <<set_number_zb + 1, disc_in_set_number_zb + 1>>

\* A string is the sequence of its character codes.
Dash == 45
\* the characters '0' .. '9' of a sequence of decimal digits
Chars(ds) == [k \in 1..Len(ds) |-> 48 + ds[k]]

\* s[:n]
Take(s, n) == IF Len(s) <= n THEN s ELSE SubSeq(s, 1, n)

\* s.startswith(prefix)
StartsWith(s, prefix) ==
    Len(prefix) <= Len(s) /\ SubSeq(s, 1, Len(prefix)) = prefix

\* a base name of the given length: "bcdef..."
BaseName(length) == [k \in 1..length |-> 97 + (k % 26)]

\* a variant that writes the zero-based numbers
disc_title_text_ZeroBased(name, set_number_zb, disc_in_set_number_zb) ==
    Take(name, 32 - 4 - 3 - 2)
    \o <<Dash>> \o Chars(ZeroPad(Decimal(set_number_zb), 4))
    \o <<Dash>> \o Chars(ZeroPad(Decimal(disc_in_set_number_zb), 3))

\* "{}-{:04d}-{:03d}".format(basename[:(32-4-3-2)], set_number_zb + 1,
\* disc_in_set_number_zb + 1): the title as a string
disc_title_text(name, set_number_zb, disc_in_set_number_zb) ==
    Take(name, 32 - 4 - 3 - 2)
    \o <<Dash>> \o Chars(ZeroPad(Decimal(set_number_zb + 1), 4))
    \o <<Dash>> \o Chars(ZeroPad(Decimal(disc_in_set_number_zb + 1), 3))

\* the string of a title given by its two numbers
TitleText(t) == disc_title_text(basename, t[1] - 1, t[2] - 1)

\* a variant that takes the slice number as zero-based
set_number_of_ZeroBasedSlice(dar_slice_number) ==
    dar_slice_number \div slices_per_set

\* math.floor((dar_slice_number - 1) / slices_per_set)
set_number_of(dar_slice_number) == (dar_slice_number - 1) \div slices_per_set

disc_title_for_slice(dar_slice_number) ==
    disc_title(set_number_of(dar_slice_number),
               (dar_slice_number - 1) % data_discs)

disc_title_for_slice_and_disc(dar_slice_number_ob, disc_in_set_number_zb) ==
    disc_title(set_number_of(dar_slice_number_ob), disc_in_set_number_zb)

\* ---------------------------------------------------------------------
\* External commands, as recorded in calls
\* ---------------------------------------------------------------------
\* n is the number after -n (0 where there is none), name the two numbers
\* of the par file name as they are written in it, exit the exit status
Call(cmd, title, lo, hi, inputs) ==
    [cmd |-> cmd, title |-> title, lo |-> lo, hi |-> hi, inputs |-> inputs,
     n |-> 0, name |-> <<>>, exit |-> 0]

\* parformat.format(basename, min_number, max_number) with parformat
\* "{}.<number_format>-<number_format>.par": the two numbers as written
parfilename_numbers(min_number, max_number) ==
    <<number_format(min_number), number_format(max_number)>>

\* parchive -n<K> a basename.<lo>-<hi>.par <inputs>
ParchiveAdd(lo, hi, inputs) ==
    [Call("parchive a", <<0, 0>>, lo, hi, inputs) EXCEPT
        !.n = parity_discs, !.name = parfilename_numbers(lo, hi)]
\* growisofs -Z <device> -R -J -V <title> <dir>
Growisofs(title) == Call("growisofs", title, 0, 0, <<>>)
\* parchive r basename.<lo>-<hi>.par
ParchiveRecover(lo, hi) ==
    [Call("parchive r", <<0, 0>>, lo, hi, <<>>) EXCEPT
        !.name = parfilename_numbers(lo, hi)]

\* exit statuses of an external command: success, failure
ExitStatuses == {0, 1}

\* a variant that ignores the exit status, as subprocess.call does
run_ok_Ignoring(exit) == TRUE

\* subprocess.check_call returns when the exit status is 0 and raises
\* CalledProcessError otherwise
run_ok(exit) == exit = 0

\* ---------------------------------------------------------------------
\* Darbrrb._create
\* ---------------------------------------------------------------------
\* a variant that waits for one slice more than data_discs
ShouldEncode_OneTooMany(count, hap) ==
    count > data_discs \/ hap = "last_slice"

\* a variant that encodes one slice early
ShouldEncode_OneTooFew(count, hap) ==
    count + 1 >= data_discs \/ hap = "last_slice"

\* len(dar_files_here) >= data_discs or happening == 'last_slice'
ShouldEncode(count, hap) == count >= data_discs \/ hap = "last_slice"

\* a variant that does not cycle: it advances once in data_discs slices
data_dir_NotCycling(i) == ((i - 1) \div data_discs) + 1

\* itertools.cycle(disc_dir(i+1) for i in range(data_discs)), zipped with
\* the slices: the disc directory of the i-th slice (i from 1)
data_dir(i) == ((i - 1) % data_discs) + 1

\* a variant that cycles over all the disc directories
redundancy_dir_AllDiscs(j) == ((j - 1) % total_set_count) + 1

\* itertools.cycle(disc_dir(i+1) for i in range(data_discs,
\* total_set_count)), zipped with the volumes (j from 1)
redundancy_dir(j) == data_discs + ((j - 1) % parity_discs) + 1

\* a variant that does not count the slice to come
size_if_we_dont_burn_KiB_NoNextSlice(dars_on_discs) ==
    dars_on_discs * slice_size_KiB + reserve_space_KiB

\* (dars_on_discs + 1) * slice_size_KiB + reserve_space_KiB
size_if_we_dont_burn_KiB(dars_on_discs) ==
    (dars_on_discs + 1) * slice_size_KiB + reserve_space_KiB

\* a variant that does not flush for the last slice
ShouldBurn_OnlyWhenFull(dars_on_discs, hap) ==
    size_if_we_dont_burn_KiB(dars_on_discs) > settings.disc_size_KiB

\* size_if_we_dont_burn_KiB > disc_size_KiB or happening == 'last_slice'
ShouldBurn(dars_on_discs, hap) ==
    \/ size_if_we_dont_burn_KiB(dars_on_discs) > settings.disc_size_KiB
    \/ hap = "last_slice"

\* len(glob.glob(os.path.join(disc_dir(1), '*.dar')))
dars_on(dir) == Cardinality({f \in dir : f.kind = "dar"})

Range(seq) == {seq[k] : k \in 1..Len(seq)}

Titles(md) == {md[k].title : k \in 1..Len(md)}

\* a step of the flush loop on disc directory d
Step(what, d) == [what |-> what, disc |-> d]

\* a variant that removes the disc directory with its files
unlink_files_AndDirectory(dir, d) == dir \ {disc_dir(d)}

\* for fn in glob.glob(os.path.join(d, '*')): os.unlink(fn): what is left
\* of the scratch root dir; the names unlinked are those inside disc
\* directory d
unlink_files(dir, d) == dir

RECURSIVE BurnFrom_UnlinkAnyway(_, _, _)
\* a variant that empties the directory whether growisofs succeeded or not
BurnFrom_UnlinkAnyway(i, number, st) ==
    IF i >= total_set_count THEN st
    ELSE LET title == disc_title_for_slice_and_disc(number, i)
             d == i + 1
             entry == [title |-> title, files |-> st.discs[d],
                       number |-> number, happening |-> happening]
             emptied == [st.discs EXCEPT ![d] = {}]
             exit == IF d = st.writer_fails_at THEN 1 ELSE 0
             growisofs == [Growisofs(title) EXCEPT !.exit = exit]
         IN  IF settings.actually_burn
             THEN IF run_ok(exit)
                  THEN BurnFrom_UnlinkAnyway(i + 1, number,
                      [st EXCEPT !.calls = Append(@, growisofs),
                                 !.media = Append(@, entry),
                                 !.steps = @ \o <<Step("wait", d),
                                     Step("burn", d), Step("unlink", d)>>,
                                 !.discs = emptied,
                                 !.root = unlink_files(@, d)])
                  ELSE [st EXCEPT !.calls = Append(@, growisofs),
                                  !.steps = @ \o <<Step("wait", d),
                                                   Step("unlink", d)>>,
                                  !.discs = emptied,
                                  !.root = unlink_files(@, d),
                                  !.ok = FALSE]
             ELSE IF title \in Titles(st.media)
             THEN [st EXCEPT !.ok = FALSE]
             ELSE BurnFrom_UnlinkAnyway(i + 1, number,
                      [st EXCEPT !.media = Append(@, entry),
                                 !.steps = @ \o <<Step("burn", d),
                                                  Step("unlink", d)>>,
                                 !.discs = emptied,
                                 !.root = unlink_files(@, d)])

RECURSIVE BurnFrom(_, _, _)
\* An entry of media also notes the slice number and %c of the hook call
\* that flushed it.
\* for i, d in enumerate(disc_dirs()): wait_for_empty_disc();
\* burn(basename, number, i, d, happening); unlink everything in d.
\* st is the state reached before disc directory i (zero-based);
\* st.writer_fails_at is the disc directory for which growisofs exits
\* nonzero (0: for none).
\* wait_for_empty_disc: asks the operator only when actually burning.
\* burn: growisofs, or with -n os.mkdir(destination) (which raises when
\* the folder exists) and a move of every file of d to the folder.
BurnFrom(i, number, st) ==
    IF i >= total_set_count THEN st
    ELSE LET title == disc_title_for_slice_and_disc(number, i)
             d == i + 1
             entry == [title |-> title, files |-> st.discs[d],
                       number |-> number, happening |-> happening]
             emptied == [st.discs EXCEPT ![d] = {}]
             exit == IF d = st.writer_fails_at THEN 1 ELSE 0
             growisofs == [Growisofs(title) EXCEPT !.exit = exit]
         IN  IF settings.actually_burn
             THEN IF run_ok(exit)
                  THEN BurnFrom(i + 1, number,
                      [st EXCEPT !.calls = Append(@, growisofs),
                                 !.media = Append(@, entry),
                                 !.steps = @ \o <<Step("wait", d),
                                     Step("burn", d), Step("unlink", d)>>,
                                 !.discs = emptied,
                                 !.root = unlink_files(@, d)])
                  ELSE [st EXCEPT !.calls = Append(@, growisofs),
                                  !.steps = Append(@, Step("wait", d)),
                                  !.ok = FALSE]
             ELSE IF title \in Titles(st.media)
             THEN [st EXCEPT !.ok = FALSE]
             ELSE BurnFrom(i + 1, number,
                      [st EXCEPT !.media = Append(@, entry),
                                 !.steps = @ \o <<Step("burn", d),
                                                  Step("unlink", d)>>,
                                 !.discs = emptied,
                                 !.root = unlink_files(@, d)])

\* for f, d in chain(zip(dar_files_here, data_dirs),
\*                    zip(par_volumes, redundancy_dirs)): the files that
\* shutil.move puts into disc directory d
moved_to(d, dar_files_here, par_volumes) ==
    {Dar(dar_files_here[i]) :
        i \in {k \in 1..Len(dar_files_here) : data_dir(k) = d}}
    \cup {par_volumes[j] :
            j \in {k \in 1..Len(par_volumes) : redundancy_dir(k) = d}}

\* a variant that copies the files and leaves them in the cwd
left_in_cwd_Copying(cwd, dar_files_here, par_volumes) == cwd

\* shutil.move takes the file out of the cwd
left_in_cwd(cwd, dar_files_here, par_volumes) ==
    cwd \ ({Dar(n) : n \in Range(dar_files_here)} \cup Range(par_volumes))

\* for d in disc_dirs(): the files copied into every disc directory
copied_to_every_disc(parfilename) == {parfilename, Readme, Program}

\* a variant that starts one slice too early
min_number_of_OneEarlier(max_number, nslices) == max_number - nslices

\* min_number = max_number - nslices + 1 in make_redundancy_files
min_number_of(max_number, nslices) == max_number - nslices + 1

\* The state after make_redundancy_files and the distribution loop:
\* parchive writes the index file and env.volumes volume files into the
\* cwd; the index file, README.txt and the program are copied to every
\* disc directory; slices and volumes are moved round-robin.
Distributed(number, dar_files_here) ==
    LET nslices == Len(dar_files_here)
        min_number == min_number_of(number, nslices)
        parfilename == Par(min_number, number)
        written == {parfilename} \cup
                   {Vol(min_number, number, i) : i \in 0..(env.volumes - 1)}
        cwd == root \cup written
        par_volumes == par_volumes_in(cwd)
    IN  [root  |-> left_in_cwd(cwd, dar_files_here, par_volumes),
         discs |-> [d \in 1..total_set_count |->
                      discs[d] \cup copied_to_every_disc(parfilename)
                      \cup moved_to(d, dar_files_here, par_volumes)],
         calls |-> <<ParchiveAdd(min_number, number, dar_files_here)>>,
         encoded |-> [n \in DOMAIN encoded |->
                      IF n \in Range(dar_files_here) THEN encoded[n] + 1
                                                     ELSE encoded[n]],
         moves |-> [n \in DOMAIN moves |->
                      IF n \in Range(dar_files_here) THEN moves[n] + 1
                                                     ELSE moves[n]],
         media |-> media,
         ok    |-> TRUE]

Undistributed ==
    [root |-> root, discs |-> discs, calls |-> <<>>, encoded |-> encoded,
     moves |-> moves, media |-> media, ok |-> TRUE]

\* The state after the block of _create that encodes and distributes, when
\* parchive exits with status `exit`: _run raises inside
\* make_redundancy_files unless the status is 0, and nothing of the block
\* is done. (The files a failing parchive may leave in the cwd are not
\* part of the model.)
Encoded(number, dar_files_here, exit) ==
    LET done == Distributed(number, dar_files_here)
        call == [done.calls[1] EXCEPT !.exit = exit]
    IN  IF run_ok(exit)
        THEN [done EXCEPT !.calls = <<call>>]
        ELSE [Undistributed EXCEPT !.calls = <<call>>, !.ok = FALSE]

\* a variant that lets parchive run on no files
no_slices_Never(nslices) == FALSE

\* if nslices == 0: raise ValueError(...) in make_redundancy_files
no_slices(nslices) == nslices = 0

\* dar has written slice `created` and runs
\*   python3 darbrrb.py _create %p %b %n %e %c
create ==
    /\ pc = "hook"
    /\ LET number == created
           dar_files_here == sorted_dar_files(root)
           encode == ShouldEncode(Len(dar_files_here), happening)
           \* make_redundancy_files raises ValueError on no slices
           valueerror == encode /\ no_slices(Len(dar_files_here))
           encoding == encode /\ ~valueerror
       IN  \E exit \in IF encoding THEN ExitStatuses ELSE {0} :
           \E st1 \in {IF encoding THEN Encoded(number, dar_files_here, exit)
                                    ELSE Undistributed} :
           LET burning == /\ st1.ok
                          /\ ~valueerror
                          /\ ShouldBurn(dars_on(st1.discs[1]), happening)
           IN
           \E writer_fails_at \in IF burning /\ settings.actually_burn
                                  THEN 0..total_set_count ELSE {0} :
           \E st2 \in {IF burning
                       THEN BurnFrom(0, number, st1 @@
                                [steps |-> <<>>,
                                 writer_fails_at |-> writer_fails_at])
                       ELSE st1 @@ [steps |-> <<>>]} :
           LET ok == st2.ok /\ ~valueerror IN
           /\ root' = st2.root
           /\ discs' = st2.discs
           /\ media' = st2.media
           /\ calls' = st2.calls
           /\ steps' = st2.steps
           /\ encoded' = st2.encoded
           /\ moves' = st2.moves
           /\ stats' = [stats EXCEPT
                  !.parchive_a = @ + Cardinality({k \in 1..Len(st2.calls) :
                                     st2.calls[k].cmd = "parchive a"}),
                  !.burns = @ + (Len(st2.media) - Len(media))]
           /\ pc' = IF ~ok THEN "failed"
                    ELSE IF happening = "last_slice" THEN "created"
                    ELSE "dar"
           /\ raised' = IF valueerror THEN "ValueError"
                        ELSE IF ~st1.ok THEN "CalledProcessError"
                        ELSE IF st2.ok THEN ""
                        ELSE IF settings.actually_burn
                        THEN "CalledProcessError"
                        ELSE "FileExistsError"
    /\ UNCHANGED <<scratch, main, stagings, derived, par2>>
    /\ UNCHANGED <<basename, settings, env, created, happening, request,
                   staged, nrequests, last_title>>

\* dar -c writes the next slice into the scratch directory (its cwd) and
\* then runs the hook; %c is last_slice for the last slice of the archive
dar_writes_slice(hap) ==
    /\ pc = "dar"
    /\ created < MaxSlices
    /\ created' = created + 1
    /\ happening' = hap
    /\ root' = root \cup {Dar(created + 1)}
    /\ pc' = "hook"
    /\ UNCHANGED <<scratch, main, stagings, derived, par2>>
    /\ UNCHANGED <<basename, settings, env, discs, media, calls, steps,
                   stats, encoded, moves, request, staged, nrequests,
                   last_title, raised>>

\* ---------------------------------------------------------------------
\* Darbrrb._extract and Darbrrb._obtain_recovery_set_files
\* ---------------------------------------------------------------------
\* a variant that looks for the name of the following slice
slice_exists_NextSlice(dir, number) ==
    \E f \in dir :
        f.kind = "dar" /\ number_format(f.lo) = number_format(number + 1)

\* '{}.{:0<digits>d}.{}'.format(basename, number, extension) names a file
\* of the cwd: the digits written in the name are those of the slice
slice_exists(dir, number) ==
    \E f \in dir : f.kind = "dar" /\ number_format(f.lo) = number_format(number)

\* a variant that clears the slices only
is_recovery_set_file_SlicesOnly(f) == f.kind = "dar"

\* fn.endswith('.dar') or fn.endswith('.par') or
\* re.match(r'.*\.[p-z][0-9][0-9]$', fn): volumes p00 .. z99
is_recovery_set_file(f) ==
    \/ f.kind = "dar"
    \/ f.kind = "par"
    \/ f.kind = "vol" /\ f.idx \div 100 < 11

\* a < b for two disc titles as strings: the numbers are zero-padded to 4
\* and 3 digits, so below 9999 sets and 999 discs this is the numeric order
TitleLess(a, b) == a[1] < b[1] \/ (a[1] = b[1] /\ a[2] < b[2])

Indices(md, title) == {k \in 1..Len(md) : md[k].title = title}

\* glob.glob(os.path.join(scratch_dir, basename + '-*')) in
\* last_set_directory: the folders of flushed discs whose names start with
\* the whole base name and a dash
last_set_dirs ==
    {t \in Titles(media) : StartsWith(TitleText(t), basename \o <<Dash>>)}

\* The flushed disc whose files are listed for column disc_zb; 0 when the
\* directory does not exist (os.listdir then raises).
\* written_disc_directory(title): with -n the folder <scratch>/<title>;
\* otherwise the operator mounts a disc with that title (the first or the
\* last one burned under it, should there be several).
\* last_set_directory(basename, disc_zb): with -n the last of the sorted
\* folders whose names match basename-* (sorted(dirs)[-1] raises when
\* there is none), its final three characters replaced by the disc
\* number; otherwise the operator mounts that disc of the set burned last.
disc_dir_for(set_number_zb, disc_zb, last, pick_first) ==
    LET Pick(ks) == IF ks = {} THEN 0
                    ELSE IF pick_first
                    THEN CHOOSE k \in ks : \A l \in ks : k <= l
                    ELSE CHOOSE k \in ks : \A l \in ks : k >= l
    IN  IF ~last
        THEN Pick(Indices(media, disc_title(set_number_zb, disc_zb)))
        ELSE IF settings.actually_burn
        THEN IF Len(media) < total_set_count THEN 0
             ELSE Len(media) - total_set_count + disc_zb + 1
        ELSE LET dirs == last_set_dirs
             IN  IF dirs = {} THEN 0
                 ELSE LET last_disc_dir ==
                              CHOOSE t \in dirs :
                                  \A u \in dirs \ {t} : TitleLess(u, t)
                      IN  Pick(Indices(media,
                                       <<last_disc_dir[1], disc_zb + 1>>))

\* The exception that ends _obtain_recovery_set_files when the directory
\* of a column is not there: sorted(dirs)[-1] raises IndexError when the
\* glob matched nothing, os.listdir raises FileNotFoundError for a
\* directory that does not exist.
raised_for_missing_dir(last) ==
    IF last /\ ~settings.actually_burn /\ last_set_dirs = {}
    THEN "IndexError" ELSE "FileNotFoundError"

\* a variant that makes symbolic links to the files of the disc
copyfile_Symlinking(st, k) ==
    [st EXCEPT !.root = @ \cup media[k].files,
               !.linked = @ \cup {<<k, f>> : f \in media[k].files}]

\* shutil.copyfile(os.path.join(disc_dir, f), os.path.join(scratch_dir, f))
\* for every file of flushed disc k: the cwd gets a file of that name with
\* data of its own; the disc is only read. (st.linked: the files of the
\* cwd that share their data with a file of a disc.)
copyfile(st, k) == [st EXCEPT !.root = @ \cup media[k].files]

\* a file of a disc after its data was overwritten
Overwritten(f) == [f EXCEPT !.kind = "overwritten"]

\* parchive r overwrites file f of the cwd, a slice it found damaged: the
\* discs afterwards
written_through(md, linked, f) ==
    [j \in DOMAIN md |->
        IF <<j, f>> \in linked
        THEN [md[j] EXCEPT !.files = (@ \ {f}) \cup {Overwritten(f)}]
        ELSE md[j]]

\* what one staging did, in order: it copied the files of flushed
\* disc k, or it
\* ran the decoder on an index file
Copied(k) == [op |-> "copy", disc |-> k, par |-> <<0, 0>>]
Decoded(par) == [op |-> "parchive r", disc |-> 0,
                 par |-> <<par.lo, par.hi>>]

RECURSIVE ObtainFrom(_, _, _, _, _)
\* for disc_zb in range(total_set_count): resolve the directory of the
\* disc, remember its *.par names, copy each of its files into the scratch
\* directory. st is the state reached before column disc_zb.
ObtainFrom(disc_zb, set_number_zb, last, pick_first, st) ==
    IF disc_zb >= total_set_count THEN st
    ELSE LET k == disc_dir_for(set_number_zb, disc_zb, last, pick_first)
         IN  IF k = 0
             THEN [st EXCEPT !.ok = FALSE,
                      !.raised = raised_for_missing_dir(last),
                      !.staged = Append(@, IF last THEN <<0, disc_zb + 1>>
                                  ELSE disc_title(set_number_zb, disc_zb))]
             ELSE ObtainFrom(disc_zb + 1, set_number_zb, last, pick_first,
                      [copyfile(st, k) EXCEPT
                          !.staged = Append(@, media[k].title),
                          !.log = Append(@, Copied(k)),
                          !.pars = @ \cup {f \in media[k].files :
                                             f.kind = "par"}])

ParBefore(f, g) == StrLess(number_format(f.lo), number_format(g.lo))

RECURSIVE SortedPars_Descending(_)
\* a variant that sorts in descending order
SortedPars_Descending(ps) ==
    IF ps = {} THEN <<>>
    ELSE LET first == CHOOSE f \in ps : \A g \in ps \ {f} : ParBefore(g, f)
         IN  <<first>> \o SortedPars_Descending(ps \ {first})

RECURSIVE SortedPars(_)
\* sorted(list(pars))
SortedPars(ps) ==
    IF ps = {} THEN <<>>
    ELSE LET first == CHOOSE f \in ps : \A g \in ps \ {f} : ParBefore(f, g)
         IN  <<first>> \o SortedPars(ps \ {first})

\* what parchive r makes of an index file
DecoderResults == {"repaired", "unrecoverable", "failed"}

RECURSIVE RecoverFrom(_, _, _)
\* for parfilename in sorted(list(pars)): parchive r parfilename.
\* parchive verifies the slices lo..hi listed in the index file; it
\* rebuilds the missing ones when at least as many volumes of the index
\* file are present, and exits nonzero otherwise (unrecoverable). The
\* contents of the files are not part of the state: that too many of them
\* are damaged, or that parchive fails for another reason, is the choice
\* st.decoder_failure for the run at position st.decoder_fails_at (0 for
\* none); so is that a run which succeeds found the first slice of its
\* index file damaged and has overwritten it (st.rewrites). _run raises
\* CalledProcessError for any nonzero exit status.
RecoverFrom(k, pars, st) ==
    IF k > Len(pars) \/ ~st.ok THEN st
    ELSE LET par == pars[k]
             missing == {n \in par.lo..par.hi : Dar(n) \notin st.root}
             volumes == {f \in st.root : f.kind = "vol" /\ f.lo = par.lo
                                          /\ f.hi = par.hi}
             result == IF Cardinality(missing) > Cardinality(volumes)
                       THEN "unrecoverable"
                       ELSE IF k = st.decoder_fails_at
                       THEN st.decoder_failure
                       ELSE "repaired"
             exit == IF result = "repaired" THEN 0 ELSE 1
             st1 == [st EXCEPT !.decoder = result,
                        !.log = Append(@, Decoded(par)),
                        !.calls = Append(@,
                            [ParchiveRecover(par.lo, par.hi)
                                EXCEPT !.exit = exit])]
         IN  IF run_ok(exit)
             THEN RecoverFrom(k + 1, pars,
                      [st1 EXCEPT
                          !.root = @ \cup {Dar(n) : n \in missing},
                          !.media = IF st.rewrites
                                    THEN written_through(@, st.linked,
                                                         Dar(par.lo))
                                    ELSE @])
             ELSE [st1 EXCEPT !.ok = FALSE, !.raised = "CalledProcessError"]

\* _obtain_recovery_set_files(basename, set_number_zb, last): the states
\* it may end in, one for each run of parchive r that may fail
obtain_recovery_set_files(set_number_zb, last, pick_first) ==
    LET cleared == {f \in root : ~is_recovery_set_file(f)}
        st0 == [root |-> cleared, pars |-> {}, staged |-> <<>>,
                calls |-> <<>>, media |-> media, decoder |-> "none",
                log |-> <<>>,
                linked |-> {}, rewrites |-> FALSE,
                raised |-> "", decoder_fails_at |-> 0,
                decoder_failure |-> "failed", ok |-> TRUE]
        failures(n) == {<<0, "failed">>} \cup
                       ((1..n) \X (DecoderResults \ {"repaired"}))
    IN  UNION {{RecoverFrom(1, SortedPars(st1.pars),
                    [st1 EXCEPT !.decoder_fails_at = failure[1],
                                !.decoder_failure = failure[2],
                                !.rewrites = rewrites]) :
                failure \in failures(Cardinality(st1.pars)),
                rewrites \in BOOLEAN} :
               st1 \in {ObtainFrom(0, set_number_zb, last, pick_first, st0)}}

\* a variant that takes the slice number as zero-based
wanted_set_number_zb_ZeroBased(number) == number \div slices_per_set

\* math.floor((number - 1) / slices_per_set) in _extract
wanted_set_number_zb(number) == (number - 1) \div slices_per_set

\* _extract(dir, basename, number, extension, happening)
extract_slice(number, pick_first) ==
    /\ nrequests' = nrequests + 1
    /\ LET present == number # 0 /\ slice_exists(root, number)
       IN  IF present
           THEN /\ request' = [number |-> number, present |-> TRUE,
                               last |-> FALSE, decoder |-> "none",
                               log |-> <<>>]
                /\ calls' = <<>>
                /\ staged' = <<>>
                /\ UNCHANGED <<root, media, stats, pc, raised>>
           ELSE \E st \in obtain_recovery_set_files(
                              IF number = 0 THEN 0
                              ELSE wanted_set_number_zb(number),
                              number = 0, pick_first) :
                   /\ request' = [number |-> number, present |-> FALSE,
                                  last |-> (number = 0),
                                  decoder |-> st.decoder, log |-> st.log]
                   /\ root' = st.root
                   /\ media' = st.media
                   /\ raised' = st.raised
                   /\ calls' = st.calls
                   /\ staged' = st.staged
                   /\ stats' = [stats EXCEPT !.parchive_r = @ + Len(st.calls)]
                   /\ pc' = IF st.ok THEN "created" ELSE "failed"
    /\ UNCHANGED <<scratch, main, derived, par2>>
    /\ UNCHANGED <<basename, settings, env, created, happening, discs,
                   steps, encoded, moves, last_title>>

\* dar -x asks for slice `number` (0: the last slice, number unknown) by
\* running   python3 darbrrb.py _extract %p %b %n %e %c
extract(number, pick_first) ==
    /\ pc = "created"
    /\ created <= MaxRestoreSlices
    /\ nrequests < MaxRequests
    /\ extract_slice(number, pick_first)
    /\ UNCHANGED stagings

\* ---------------------------------------------------------------------
\* Initial state: after ensure_scratch and the writing of darrc in dar()
\* ---------------------------------------------------------------------
NoRequest == [number |-> -1, present |-> FALSE, last |-> FALSE,
              decoder |-> "none", log |-> <<>>]

\* the scratch root after ensure_scratch; its free space is not looked at
\* again
ScratchSetUp == [kind |-> "dir", free_KiB |-> 0,
                 found |-> [kind |-> "absent", entries |-> {}]]

NoTitle == [number |-> 0, set_number_zb |-> 0, disc_in_set_number_zb |-> 0,
            text |-> <<>>]

Init ==
    /\ settings \in [data_discs : 1..MaxDataDiscs,
                     parity_discs : 1..MaxParityDiscs,
                     slices_per_disc : 1..MaxSlicesPerDisc,
                     digits : DigitWidths,
                     disc_size_KiB : DiscSizesKiB,
                     actually_burn : BOOLEAN]
    \* when burning, the base name is only ever passed on to growisofs
    \* inside the title: one length is enough
    /\ basename \in {BaseName(l) : l \in IF settings.actually_burn
                                          THEN {4} ELSE BaseNameLengths}
    /\ slice_size_KiB >= 1
    /\ env \in [volumes : {settings.parity_discs, settings.parity_discs + 1},
                listdir_reversed : BOOLEAN]
    /\ pc = "dar"
    /\ created = 0
    /\ happening = "init"
    /\ root = {Program, Darrc}
                  \cup {disc_dir(d) : d \in 1..total_set_count}
    /\ discs = [d \in 1..total_set_count |-> {}]
    /\ media = <<>>
    /\ calls = <<>>
    /\ steps = <<>>
    /\ stats = [parchive_a |-> 0, burns |-> 0, parchive_r |-> 0]
    /\ encoded = [n \in 1..MaxSlices |-> 0]
    /\ moves = [n \in 1..MaxSlices |-> 0]
    /\ request = NoRequest
    /\ staged = <<>>
    /\ nrequests = 0
    /\ last_title = NoTitle
    /\ raised = ""
    /\ scratch = ScratchSetUp
    /\ main = <<>>
    /\ stagings = <<>>
    /\ derived = NotDerived
    /\ par2 = NoPar2

\* what the operator may do when asked for a disc title: there is a choice
\* only when several discs were burned under one title
OperatorChoices ==
    IF Cardinality(Titles(media)) < Len(media) THEN BOOLEAN ELSE {TRUE}

Next ==
    \/ \E hap \in {"operating", "last_slice"} : dar_writes_slice(hap)
    \/ create
    \/ \E number \in 0..created, pick_first \in OperatorChoices :
           extract(number, pick_first)

Spec == Init /\ [][Next]_vars

\* ---------------------------------------------------------------------
\* The disc titles on their own: disc_title and
\* disc_title_for_slice_and_disc applied to arguments drawn from small
\* sets, among them the first numbers that need a digit more than the
\* format pads to; one title is computed in a run
\* ---------------------------------------------------------------------
TitleBaseNameLengths == {1, 23, 24, 32}
TitleSetNumbers == {0, 1, 9, 9998, 9999}
TitleDiscNumbers == {0, 1, 9, 998, 999}
TitleSliceNumbers ==
    1..MaxSlices \cup {9999 * slices_per_set, 9999 * slices_per_set + 1}

InitTitle ==
    /\ settings \in [data_discs : 1..MaxDataDiscs,
                     parity_discs : 1..MaxParityDiscs,
                     slices_per_disc : 1..MaxSlicesPerDisc,
                     digits : DigitWidths,
                     disc_size_KiB : DiscSizesKiB,
                     actually_burn : BOOLEAN]
    /\ slice_size_KiB >= 1
    /\ basename \in {BaseName(l) : l \in TitleBaseNameLengths}
    /\ env = [volumes |-> settings.parity_discs, listdir_reversed |-> FALSE]
    /\ pc = "dar"
    /\ created = 0
    /\ happening = "init"
    /\ root = {Program, Darrc}
                  \cup {disc_dir(d) : d \in 1..total_set_count}
    /\ discs = [d \in 1..total_set_count |-> {}]
    /\ media = <<>>
    /\ calls = <<>>
    /\ steps = <<>>
    /\ stats = [parchive_a |-> 0, burns |-> 0, parchive_r |-> 0]
    /\ encoded = [n \in 1..MaxSlices |-> 0]
    /\ moves = [n \in 1..MaxSlices |-> 0]
    /\ request = NoRequest
    /\ staged = <<>>
    /\ nrequests = 0
    /\ last_title = NoTitle
    /\ raised = ""
    /\ scratch = ScratchSetUp
    /\ main = <<>>
    /\ stagings = <<>>
    /\ derived = NotDerived
    /\ par2 = NoPar2

\* disc_title(basename, set_number_zb, disc_in_set_number_zb)
disc_title_called(set_number_zb, disc_in_set_number_zb) ==
    /\ last_title = NoTitle
    /\ last_title' = [number |-> 0,
                      set_number_zb |-> set_number_zb,
                      disc_in_set_number_zb |-> disc_in_set_number_zb,
                      text |-> disc_title_text(basename, set_number_zb,
                                               disc_in_set_number_zb)]
    /\ UNCHANGED <<scratch, main, stagings, derived, par2>>
    /\ UNCHANGED <<basename, settings, env, pc, created, happening, root,
                   discs, media, calls, steps, stats, encoded, moves,
                   request, staged, nrequests, raised>>

\* disc_title_for_slice_and_disc(basename, dar_slice_number_ob,
\* disc_in_set_number_zb)
disc_title_for_slice_and_disc_called(slice_number_ob, disc_number_zb) ==
    /\ last_title = NoTitle
    /\ last_title' = [number |-> slice_number_ob,
                      set_number_zb |-> set_number_of(slice_number_ob),
                      disc_in_set_number_zb |-> disc_number_zb,
                      text |-> TitleText(disc_title_for_slice_and_disc(
                                  slice_number_ob, disc_number_zb))]
    /\ UNCHANGED <<scratch, main, stagings, derived, par2>>
    /\ UNCHANGED <<basename, settings, env, pc, created, happening, root,
                   discs, media, calls, steps, stats, encoded, moves,
                   request, staged, nrequests, raised>>

NextTitle ==
    \/ \E set_number_zb \in TitleSetNumbers,
          disc_in_set_number_zb \in TitleDiscNumbers :
           disc_title_called(set_number_zb, disc_in_set_number_zb)
    \/ \E dar_slice_number_ob \in TitleSliceNumbers,
          disc_in_set_number_zb \in 0..(total_set_count - 1) :
           disc_title_for_slice_and_disc_called(dar_slice_number_ob,
                                                disc_in_set_number_zb)

SpecTitle == InitTitle /\ [][NextTitle]_vars

\* ---------------------------------------------------------------------
\* The backup with callbacks that find no new slice: main runs _create for
\* whoever starts the program with that subcommand, so the hook may be run
\* again (by hand, or by a dar that reports an event without a slice)
\* after the callback for the slice written last has returned.
\* ---------------------------------------------------------------------
create_called_again(hap) ==
    /\ pc = "dar"
    /\ happening' = hap
    /\ pc' = "hook"
    /\ UNCHANGED <<scratch, main, stagings, derived, par2>>
    /\ UNCHANGED <<basename, settings, env, created, root, discs, media,
                   calls, steps, stats, encoded, moves, request, staged,
                   nrequests, last_title, raised>>

NextCallback ==
    \/ \E hap \in {"operating", "last_slice"} : dar_writes_slice(hap)
    \/ create
    \/ \E hap \in {"operating", "last_slice"} : create_called_again(hap)

SpecCallback == Init /\ [][NextCallback]_vars

\* ---------------------------------------------------------------------
\* The restore of a whole backup, as mock_dar of the tests has dar ask
\* for the slices: the last one under the number 0, then under its number
\* M, then 1..M in order. Backups of at most MaxWholeRestoreSlices slices
\* are restored.
\* ---------------------------------------------------------------------
\* the number of the slice asked for after nrequests requests
requested_number(n) == IF n = 0 THEN 0 ELSE IF n = 1 THEN created ELSE n - 1

dar_requests_slice(pick_first) ==
    /\ pc = "created"
    /\ created <= MaxWholeRestoreSlices
    /\ nrequests < created + 2
    /\ extract_slice(requested_number(nrequests), pick_first)
    /\ stagings' = IF request'.present THEN stagings
                   ELSE Append(stagings, [titles |-> staged',
                                          calls |-> calls',
                                          root |-> root'])

NextWholeRestore ==
    \/ \E hap \in {"operating", "last_slice"} : dar_writes_slice(hap)
    \/ create
    \/ \E pick_first \in OperatorChoices : dar_requests_slice(pick_first)

SpecWholeRestore == Init /\ [][NextWholeRestore]_vars

\* ---------------------------------------------------------------------
\* The program started as `darbrrb [-n] dar <arguments>`: main,
\* ensure_scratch and dar(), for two instances that share one scratch
\* root. Each system call is a step of its own. What dar does while it
\* runs (the slices, the hooks) is left to the specification above.
\* ---------------------------------------------------------------------
Instances == {1, 2}

\* Settings.scratch_dir
scratch_dir == "/home/tmp/backup_scratch"

\* os.path.join(scratch_dir, name)
scratch_path(name) == <<scratch_dir, name>>

\* os.getcwd() of each instance when it is started
StartDirs == <<"/zart", "/fnord">>

\* what follows `dar` on the command line: a backup, a restore
DarArguments == {<<"-c", "basename">>, <<"-x", "basename">>}

\* disc_size_KiB is disc_size_MiB * 1024
disc_size_MiB == settings.disc_size_KiB \div 1024

\* total_set_count * disc_size_MiB
scratch_free_needed_MiB == total_set_count * disc_size_MiB

\* s.f_bavail * s.f_frsize // 1048576
scratch_free_MiB == scratch.free_KiB \div 1024

\* a variant that also refuses exactly the needed space
not_enough_space_OrEqual(free_space_MiB, needed_MiB) ==
    free_space_MiB <= needed_MiB

\* free_space_MiB < self.settings.scratch_free_needed_MiB
not_enough_space(free_space_MiB, needed_MiB) == free_space_MiB < needed_MiB

\* a variant that takes an existing directory for a new one (mkdir -p)
mkdir_fails_Never(dir, name) == FALSE

\* os.mkdir(path) raises FileExistsError when the path exists
mkdir_fails(dir, name) == name \in dir

\* a variant that stays where it is when the body raised
cwd_after_OnlyOnSuccess(oldcwd, newcwd, failed) ==
    IF failed THEN newcwd ELSE oldcwd

\* finally: os.chdir(oldcwd) in working_directory, whether or not the
\* body raised
cwd_after(oldcwd, newcwd, failed) == oldcwd

\* the instance as main starts it
Started(i, args) ==
    [args |-> args, pc |-> "ensure_scratch", disc |-> 1,
     cwd |-> StartDirs[i], oldcwd |-> "", raised |-> "", ran |-> <<>>]

Raise(i, class) ==
    main' = [main EXCEPT ![i].pc = "failed", ![i].raised = class]

Goto(i, label) == main' = [main EXCEPT ![i].pc = label]

\* if os.path.exists(scratch_dir): if not os.path.isdir(scratch_dir):
\*     raise ScratchAlreadyExists()
exists_isdir(i) ==
    /\ main[i].pc = "ensure_scratch"
    /\ IF scratch.kind = "file" THEN Raise(i, "ScratchAlreadyExists")
       ELSE IF scratch.kind = "dir" THEN Goto(i, "mkdir_disc")
       ELSE Goto(i, "mkdir_scratch")
    /\ UNCHANGED <<scratch, root>>

\* else: os.mkdir(scratch_dir)
mkdir_scratch(i) ==
    /\ main[i].pc = "mkdir_scratch"
    /\ IF scratch.kind # "absent"
       THEN Raise(i, "FileExistsError") /\ UNCHANGED scratch
       ELSE Goto(i, "mkdir_disc")
            /\ scratch' = [scratch EXCEPT !.kind = "dir"]
    /\ UNCHANGED root

\* for disc in range(1, total_set_count + 1):
\*     os.mkdir(os.path.join(scratch_dir, disc_dir(disc)))
mkdir_disc_dir(i) ==
    /\ main[i].pc = "mkdir_disc"
    /\ LET disc == main[i].disc IN
       IF mkdir_fails(root, disc_dir(disc))
       THEN Raise(i, "FileExistsError") /\ UNCHANGED root
       ELSE /\ root' = root \cup {disc_dir(disc)}
            /\ main' = [main EXCEPT
                   ![i].disc = disc + 1,
                   ![i].pc = IF disc = total_set_count
                             THEN "ensure_free_space" ELSE "mkdir_disc"]
    /\ UNCHANGED scratch

\* self.ensure_free_space()
ensure_free_space(i) ==
    /\ main[i].pc = "ensure_free_space"
    /\ IF not_enough_space(scratch_free_MiB, scratch_free_needed_MiB)
       THEN Raise(i, "NotEnoughScratchSpace")
       ELSE Goto(i, "copy_program")
    /\ UNCHANGED <<scratch, root>>

\* shutil.copyfile(progname, os.path.join(scratch_dir, basename(progname)))
copy_program(i) ==
    /\ main[i].pc = "copy_program"
    /\ root' = root \cup {Program}
    /\ Goto(i, "dar")
    /\ UNCHANGED scratch

\* dar(): open(os.path.join(scratch_dir, 'darrc'), 'w'), write, flush
write_darrc(i) ==
    /\ main[i].pc = "dar"
    /\ root' = root \cup {Darrc}
    /\ Goto(i, "working_directory")
    /\ UNCHANGED scratch

\* with working_directory(scratch_dir): oldcwd = os.getcwd();
\* os.chdir(newcwd)
working_directory_enter(i) ==
    /\ main[i].pc = "working_directory"
    /\ main' = [main EXCEPT ![i].oldcwd = main[i].cwd,
                            ![i].cwd = scratch_dir,
                            ![i].pc = "run"]
    /\ UNCHANGED <<scratch, root>>

\* self._run('dar', *(args + ('-B', darrc_file.name))): check_call raises
\* CalledProcessError unless dar exits with status 0; the finally clause
\* of working_directory runs next in either case
run_dar(i, exit) ==
    /\ main[i].pc = "run"
    /\ main' = [main EXCEPT
           ![i].ran = Append(@, [cmd |-> "dar",
                                 args |-> main[i].args \o
                                          <<"-B", scratch_path("darrc")>>,
                                 cwd |-> main[i].cwd,
                                 darrc |-> Darrc \in root,
                                 exit |-> exit]),
           ![i].raised = IF run_ok(exit) THEN "" ELSE "CalledProcessError",
           ![i].pc = "finally"]
    /\ UNCHANGED <<scratch, root>>

\* finally: os.chdir(oldcwd); then main ends, or the exception goes on
working_directory_exit(i) ==
    /\ main[i].pc = "finally"
    /\ LET failed == main[i].raised # "" IN
       main' = [main EXCEPT
           ![i].cwd = cwd_after(main[i].oldcwd, main[i].cwd, failed),
           ![i].pc = IF failed THEN "failed" ELSE "done"]
    /\ UNCHANGED <<scratch, root>>

\* sizes of the discs in MiB, and the free space of the scratch filesystem
\* in KiB relative to the space needed: just below, exactly, just above
MainDiscSizesMiB == {1, 2}
FreeSpaceOffsetsKiB == {-1, 0, 1}

\* what the scratch root may hold when it is a directory already: nothing,
\* a slice of an earlier archive, one disc directory of this geometry or
\* of a larger one, the area of a whole earlier run
FoundInScratch ==
    {{}, {Dar(1)}, {disc_dir(1)}, {disc_dir(total_set_count)},
     {disc_dir(total_set_count + 1)},
     {Program, Darrc} \cup {disc_dir(d) : d \in 1..total_set_count}}

InitMain ==
    /\ settings \in [data_discs : 1..MaxDataDiscs,
                     parity_discs : 1..MaxParityDiscs,
                     slices_per_disc : {1},
                     digits : {4},
                     disc_size_KiB : {m * 1024 : m \in MainDiscSizesMiB},
                     actually_burn : {TRUE}]
    /\ basename = BaseName(4)
    /\ env = [volumes |-> settings.parity_discs, listdir_reversed |-> FALSE]
    /\ \E kind \in {"absent", "file", "dir"} :
       \E found \in IF kind = "dir" THEN FoundInScratch ELSE {{}} :
       \E offset \in FreeSpaceOffsetsKiB :
          /\ root = found
          /\ scratch = [kind |-> kind,
                        free_KiB |-> scratch_free_needed_MiB * 1024 + offset,
                        found |-> [kind |-> kind, entries |-> found]]
    /\ main \in {[i \in Instances |-> Started(i, args[i])] :
                    args \in [Instances -> DarArguments]}
    /\ pc = "main"
    /\ created = 0
    /\ happening = "init"
    /\ discs = [d \in 1..total_set_count |-> {}]
    /\ media = <<>>
    /\ calls = <<>>
    /\ steps = <<>>
    /\ stats = [parchive_a |-> 0, burns |-> 0, parchive_r |-> 0]
    /\ encoded = [n \in 1..MaxSlices |-> 0]
    /\ moves = [n \in 1..MaxSlices |-> 0]
    /\ request = NoRequest
    /\ staged = <<>>
    /\ nrequests = 0
    /\ last_title = NoTitle
    /\ raised = ""
    /\ stagings = <<>>
    /\ derived = NotDerived
    /\ par2 = NoPar2

MainStep(i) ==
    \/ exists_isdir(i)
    \/ mkdir_scratch(i)
    \/ mkdir_disc_dir(i)
    \/ ensure_free_space(i)
    \/ copy_program(i)
    \/ write_darrc(i)
    \/ working_directory_enter(i)
    \/ \E exit \in ExitStatuses : run_dar(i, exit)
    \/ working_directory_exit(i)

NextMain ==
    \E i \in Instances :
        /\ MainStep(i)
        /\ UNCHANGED <<basename, settings, env, pc, created, happening,
                       discs, media, calls, steps, stats, encoded, moves,
                       request, staged, nrequests, last_title, raised,
                       stagings, derived, par2>>

SpecMain == InitMain /\ [][NextMain]_vars

\* ---------------------------------------------------------------------
\* Settings: the values derived from the geometry
\* ---------------------------------------------------------------------

\* the geometries a Settings object is read under: the bounded ones, the
\* shipped one (3 data discs, 500 slices per disc, 23841 MiB), a CD, and
\* discs that the reserve and the slices nearly fill
SettingsDataDiscs == (1..MaxDataDiscs) \cup {3, 7}
SettingsSlicesPerDisc == (1..MaxSlicesPerDisc) \cup {500, 1025}
SettingsDiscSizesMiB == {11, 12, 680, 23841}
SettingsExpectedGiB == {1, 500}
SettingsDigits == {0, 4}

\* int(expected_data_size_GiB * 1024.0 * slices_per_disc / disc_size_MiB
\*     + 1)
expected_slices ==
    (settings.expected_data_size_GiB * 1024 * slices_per_disc)
        \div disc_size_MiB + 1

\* a variant without the extra digit
calculate_digits_NoExtraDigit == Len(Decimal(expected_slices))

\* Settings._calculate_digits: len(str(expected_slices)) + 1
calculate_digits == Len(Decimal(expected_slices)) + 1

\* settings.digits = new_value
set_digits(new_value) ==
    /\ pc = "settings"
    /\ derived._digits # new_value
    /\ derived' = [derived EXCEPT !._digits = new_value,
                                  !.configured = new_value,
                                  !.read = @ \ {"digits"}]
    /\ UNCHANGED <<basename, settings, env, pc, created, happening, root,
                   discs, media, calls, steps, stats, encoded, moves,
                   request, staged, nrequests, last_title, raised, scratch,
                   main, stagings, par2>>

\* settings.digits is read: the _digits attribute is computed when the
\* object has none (0), and returned
get_digits ==
    /\ pc = "settings"
    /\ \E value \in {IF derived._digits = 0 THEN calculate_digits
                                             ELSE derived._digits} :
           derived' = [derived EXCEPT !._digits = value,
                                      !.digits = value,
                                      !.read = @ \cup {"digits"}]
    /\ UNCHANGED <<basename, settings, env, pc, created, happening, root,
                   discs, media, calls, steps, stats, encoded, moves,
                   request, staged, nrequests, last_title, raised, scratch,
                   main, stagings, par2>>

\* settings.slice_size_KiB is read
get_slice_size_KiB ==
    /\ pc = "settings"
    /\ derived' = [derived EXCEPT !.slice_size_KiB = slice_size_KiB,
                                  !.read = @ \cup {"slice_size_KiB"}]
    /\ UNCHANGED <<basename, settings, env, pc, created, happening, root,
                   discs, media, calls, steps, stats, encoded, moves,
                   request, staged, nrequests, last_title, raised, scratch,
                   main, stagings, par2>>

\* a Settings object as constructed, with its class attributes edited;
\* the digits may have been set before the first read (the unit tests do)
InitSettings ==
    /\ settings \in [data_discs : SettingsDataDiscs,
                     parity_discs : {1},
                     slices_per_disc : SettingsSlicesPerDisc,
                     expected_data_size_GiB : SettingsExpectedGiB,
                     disc_size_KiB : {m * 1024 : m \in SettingsDiscSizesMiB},
                     actually_burn : {TRUE}]
    /\ basename = BaseName(4)
    /\ env = [volumes |-> 1, listdir_reversed |-> FALSE]
    /\ pc = "settings"
    /\ created = 0
    /\ happening = "init"
    /\ root = {}
    /\ discs = <<>>
    /\ media = <<>>
    /\ calls = <<>>
    /\ steps = <<>>
    /\ stats = [parchive_a |-> 0, burns |-> 0, parchive_r |-> 0]
    /\ encoded = [n \in 1..MaxSlices |-> 0]
    /\ moves = [n \in 1..MaxSlices |-> 0]
    /\ request = NoRequest
    /\ staged = <<>>
    /\ nrequests = 0
    /\ last_title = NoTitle
    /\ raised = ""
    /\ scratch = ScratchSetUp
    /\ main = <<>>
    /\ stagings = <<>>
    /\ \E d \in SettingsDigits :
           derived = [NotDerived EXCEPT !._digits = d, !.configured = d]
    /\ par2 = NoPar2

NextSettings ==
    \/ \E new_value \in SettingsDigits \ {0} : set_digits(new_value)
    \/ get_digits
    \/ get_slice_size_KiB

SpecSettings == InitSettings /\ [][NextSettings]_vars

\* ---------------------------------------------------------------------
\* parpackets.py: headers_in_par2_file
\* ---------------------------------------------------------------------
\* A file is a sequence of bytes. b'PAR2' and b'\0PKT':
PAR2 == <<80, 65, 82, 50>>
PKT == <<0, 80, 75, 84>>

\* n bytes b
Bytes(n, b) == [i \in 1..n |-> b]

\* struct.pack('<Q', length) for length < 256
PackedLength(length) == <<length>> \o Bytes(7, 0)

\* a packet as it lies in a file: magic, declared length, MD5 and set id
\* (16 bytes each), type (16 bytes), and the body that a well-formed
\* packet of that length has
Packet(length, type) ==
    PAR2 \o PKT \o PackedLength(length) \o Bytes(16, 77) \o Bytes(16, 83)
         \o type
         \o Bytes(IF length > 64 THEN length - 64 ELSE 0, 98)

\* the declared lengths: none, inside the header, the header alone, and
\* with a body
DeclaredLengths == {0, 60, 64, 68}

\* b'PAR 2.0\0Main\0\0\0\0', and a type that is not UTF-8
PacketTypes ==
    {<<80, 65, 82, 32, 50, 46, 48, 0, 77, 97, 105, 110, 0, 0, 0, 0>>,
     Bytes(16, 255)}

\* what a file is made of: packets, garbage of one byte and of four, and
\* a magic that no packet follows
Pieces ==
    {Packet(l, t) : l \in DeclaredLengths, t \in PacketTypes}
        \cup {Bytes(1, 103), Bytes(4, 103), PAR2}

\* bytes missing at the end of a truncated file
Truncations == {0, 14, 52}

Truncated(bytes, n) ==
    IF n >= Len(bytes) THEN <<>> ELSE SubSeq(bytes, 1, Len(bytes) - n)

Par2Files ==
    {Truncated(a \o b, n) : a \in Pieces \cup {<<>>}, b \in Pieces,
                            n \in Truncations}

\* f.read(n) at position tell: the bytes read; none at or beyond the end
read(file, tell, n) ==
    IF tell >= Len(file) THEN <<>>
    ELSE SubSeq(file, tell + 1, IF tell + n > Len(file) THEN Len(file)
                                                       ELSE tell + n)

\* struct.unpack('<Q', bytes)[0]. A value of 2^24 or more is kept as
\* 2^24: it lies beyond the end of every file here just the same
unpack(bytes) ==
    IF \E i \in 4..8 : bytes[i] # 0 THEN 16777216
    ELSE bytes[1] + 256 * bytes[2] + 65536 * bytes[3]

\* bytes.decode('UTF-8') succeeds: of the bytes used here the ASCII ones
\* decode and 0xFF never does
decodable(bytes) == \A i \in 1..Len(bytes) : bytes[i] < 128

\* .decode('UTF-8').replace('\0', '·'), '·' being U+00B7
decoded(bytes) ==
    [i \in 1..Len(bytes) |-> IF bytes[i] = 0 THEN 183 ELSE bytes[i]]

UnchangedByPar2 ==
    UNCHANGED <<basename, settings, env, pc, created, happening, root,
                discs, media, calls, steps, stats, encoded, moves, request,
                staged, nrequests, last_title, raised, scratch, main,
                stagings, derived>>

\* while len(x) > 0: x = f.read(4)
while_test ==
    /\ par2.pc = "while"
    /\ IF Len(par2.x) > 0
       THEN LET x == read(par2.file, par2.tell, 4)
            IN  par2' = [par2 EXCEPT !.x = x, !.tell = @ + Len(x),
                                     !.start = par2.tell, !.pc = "skip"]
       ELSE par2' = [par2 EXCEPT !.pc = "done"]
    /\ UnchangedByPar2

\* while len(x) > 0 and x != b'PAR2': x = f.read(4)
skip_test ==
    /\ par2.pc = "skip"
    /\ IF Len(par2.x) > 0 /\ par2.x # PAR2
       THEN LET x == read(par2.file, par2.tell, 4)
            IN  par2' = [par2 EXCEPT !.x = x, !.tell = @ + Len(x)]
       ELSE par2' = [par2 EXCEPT !.pc = "magic"]
    /\ UnchangedByPar2

\* x = f.read(4); if x == b'\0PKT':
read_magic ==
    /\ par2.pc = "magic"
    /\ LET x == read(par2.file, par2.tell, 4)
       IN  par2' = [par2 EXCEPT !.x = x, !.tell = @ + Len(x),
                                !.pc = IF x = PKT THEN "header"
                                                  ELSE "while"]
    /\ UnchangedByPar2

\* length = struct.unpack('<Q', f.read(8))[0]; f.seek(f.tell()+16+16);
\* type = f.read(16).decode('UTF-8').replace('\0', '·');
\* yield (type, length)
read_header ==
    /\ par2.pc = "header"
    /\ LET at == par2.tell - 8
           bytes == read(par2.file, par2.tell, 8)
           tell == par2.tell + Len(bytes) + 16 + 16
           type == read(par2.file, tell, 16)
       IN  IF Len(bytes) < 8
           THEN par2' = [par2 EXCEPT !.tell = @ + Len(bytes),
                                     !.pc = "raised",
                                     !.raised = "struct.error"]
           ELSE IF ~decodable(type)
           THEN par2' = [par2 EXCEPT !.tell = tell + Len(type),
                                     !.length = unpack(bytes),
                                     !.pc = "raised",
                                     !.raised = "UnicodeDecodeError"]
           ELSE par2' = [par2 EXCEPT
                            !.tell = tell + Len(type),
                            !.length = unpack(bytes),
                            !.yielded = Append(@, <<decoded(type),
                                                    unpack(bytes)>>),
                            !.offsets = Append(@, at),
                            !.pc = "yielded"]
    /\ UnchangedByPar2

\* the argument of f.seek(f.tell()+length-16-16-16-8-8)
seek_target(tell, length) == tell + length - 16 - 16 - 16 - 8 - 8

\* the consumer asks for the next header: the generator goes on after the
\* yield with the seek, which raises OSError on a negative position
resume ==
    /\ par2.pc = "yielded"
    /\ Len(par2.yielded) < MaxYields
    /\ LET target == seek_target(par2.tell, par2.length)
       IN  IF target < 0
           THEN par2' = [par2 EXCEPT !.pc = "raised",
                                     !.raised = "OSError"]
           ELSE par2' = [par2 EXCEPT !.tell = target, !.pc = "while"]
    /\ UnchangedByPar2

\* headers_in_par2_file(f) called on a file opened at its beginning and
\* iterated over: x = '????'
InitPar2 ==
    /\ settings = [data_discs |-> 1, parity_discs |-> 1,
                   slices_per_disc |-> 1, digits |-> 1,
                   disc_size_KiB |-> 10246, actually_burn |-> TRUE]
    /\ basename = BaseName(4)
    /\ env = [volumes |-> 1, listdir_reversed |-> FALSE]
    /\ pc = "parpackets"
    /\ created = 0
    /\ happening = "init"
    /\ root = {}
    /\ discs = <<>>
    /\ media = <<>>
    /\ calls = <<>>
    /\ steps = <<>>
    /\ stats = [parchive_a |-> 0, burns |-> 0, parchive_r |-> 0]
    /\ encoded = [n \in 1..MaxSlices |-> 0]
    /\ moves = [n \in 1..MaxSlices |-> 0]
    /\ request = NoRequest
    /\ staged = <<>>
    /\ nrequests = 0
    /\ last_title = NoTitle
    /\ raised = ""
    /\ scratch = ScratchSetUp
    /\ main = <<>>
    /\ stagings = <<>>
    /\ derived = NotDerived
    /\ \E file \in Par2Files :
           par2 = [NoPar2 EXCEPT !.file = file, !.pc = "while",
                                 !.x = Bytes(4, 63), !.start = -1]

NextPar2 ==
    \/ while_test
    \/ skip_test
    \/ read_magic
    \/ read_header
    \/ resume

SpecPar2 == InitPar2 /\ [][NextPar2]_vars

\* ---------------------------------------------------------------------
\* Properties
\* ---------------------------------------------------------------------
CeilDiv(a, b) == (a + b - 1) \div b

\* the backup run has ended normally and no restore has touched the
\* scratch directory yet
BackupComplete == pc = "created" /\ nrequests = 0

\* indices of the flushed discs that hold file f
DiscsHolding(f) == {k \in 1..Len(media) : f \in media[k].files}

\* the flushed discs number k1 and k2 were flushed by the same hook call,
\* i.e. belong to one redundancy set
SameFlush(k1, k2) == (k1 - 1) \div total_set_count = (k2 - 1) \div total_set_count

\* the column (one-based) of flushed disc k within its flush
ColumnOf(k) == ((k - 1) % total_set_count) + 1

\* C1: between hook calls the encoder has run once for every D slices
\* written so far, and after a run of M slices, the last one marked final,
\* it has run exactly ceil(M/D) times, every slice having been an input of
\* exactly one of the calls.
C1_EncoderCallCount ==
    /\ pc = "dar" => /\ stats.parchive_a = created \div data_discs
                     /\ \A n \in 1..created :
                          encoded[n] = IF n <= data_discs * stats.parchive_a
                                       THEN 1 ELSE 0
    /\ pc = "created" => /\ stats.parchive_a = CeilDiv(created, data_discs)
                         /\ \A n \in 1..created : encoded[n] = 1

\* a complete run whose last file-set is undersized and follows full ones
C1_Witness ==
    /\ pc = "created"
    /\ data_discs >= 2
    /\ created > data_discs
    /\ created % data_discs # 0

\* C2 (as claimed): after a run of M slices the number of flushed disc
\* directories is (D+K) * ceil(M/(D*S)).
C2_FlushCount ==
    pc = "created" =>
        stats.burns = total_set_count * CeilDiv(created, data_discs * slices_per_disc)

\* C3: after a complete backup run every slice 1..M was moved exactly once
\* and is on exactly one flushed disc; no other slice is on any disc, and
\* no slice file is left in the scratch directory or in a disc directory.
C3_EverySliceFlushedOnce ==
    BackupComplete =>
        /\ \A n \in 1..created :
              moves[n] = 1 /\ Cardinality(DiscsHolding(Dar(n))) = 1
        /\ \A k \in 1..Len(media) : \A f \in media[k].files :
              f.kind = "dar" => f.lo \in 1..created
        /\ \A f \in root : f.kind # "dar"
        /\ \A d \in 1..total_set_count : \A f \in discs[d] : f.kind # "dar"

\* a complete run that flushed more than one redundancy set
C3_Witness ==
    /\ BackupComplete
    /\ created >= 3
    /\ Len(media) >= 2 * total_set_count

\* C4 (as claimed): after a complete dry-run backup, every request for a
\* slice n in 1..M ends with the file of slice n in the scratch directory.
C4_RoundTrip ==
    (~settings.actually_burn /\ nrequests >= 1 /\ request.number > 0) =>
        pc # "failed" /\ Dar(request.number) \in root

\* the file-set (zero-based) that a slice or a volume belongs to
FileSetOf(f) == (f.lo - 1) \div data_discs

Striped(f) == f.kind = "dar" \/ (f.kind = "vol" /\ env.volumes = parity_discs)

\* the slices and volumes on flushed disc k, and their file-sets
StripedOn(k) == {f \in media[k].files : Striped(f)}

FileSetsOn(k) == {FileSetOf(f) : f \in StripedOn(k)}

\* C5: the slices of one file-set and, when parchive writes exactly K
\* volumes per call, its volumes are flushed to pairwise different discs
\* of one redundancy set; so any K discs hold at most K of them.
C5_FileSetOnDifferentDiscs ==
    \* no disc holds two slices or volumes of one file-set
    /\ \A k \in 1..Len(media) :
          Cardinality(FileSetsOn(k)) = Cardinality(StripedOn(k))
    \* and the discs that hold a file-set were flushed together
    /\ \A k1 \in 1..Len(media) : \A k2 \in (k1 + 1)..Len(media) :
          ~SameFlush(k1, k2) => FileSetsOn(k1) \cap FileSetsOn(k2) = {}

\* a flushed file-set of D >= 2 slices and K >= 2 volumes
C5_Witness ==
    /\ data_discs >= 2
    /\ parity_discs >= 2
    /\ env.volumes = parity_discs
    /\ \E k \in 1..Len(media) : \E f \in media[k].files :
          f.kind = "vol" /\ f.hi - f.lo + 1 = data_discs

\* C6 (as claimed): slice n is moved into data column (n-1) mod D and is
\* flushed under the title of set floor((n-1)/(D*S)), column (n-1) mod D.
C6_PlacementMatchesNaming ==
    /\ \A d \in 1..total_set_count : \A f \in discs[d] :
          f.kind = "dar" => d = ((f.lo - 1) % data_discs) + 1
    /\ \A k \in 1..Len(media) : \A f \in media[k].files :
          f.kind = "dar" =>
              media[k].title =
                  <<((f.lo - 1) \div (data_discs * slices_per_disc)) + 1,
                    ((f.lo - 1) % data_discs) + 1>>

CountKind(files, kind) == Cardinality({f \in files : f.kind = kind})

\* C7 (as claimed): a flush that is not caused by the final slice happens
\* on a slice number that is a multiple of D*S, and every disc of it holds
\* S index files and S slices (data column) or, with K volumes per call,
\* S volumes (parity column).
C7_FlushAtSetBoundary ==
    \A k \in 1..Len(media) :
        media[k].happening # "last_slice" =>
            /\ media[k].number % (data_discs * slices_per_disc) = 0
            /\ CountKind(media[k].files, "par") = slices_per_disc
            /\ ColumnOf(k) <= data_discs =>
                   CountKind(media[k].files, "dar") = slices_per_disc
            /\ (ColumnOf(k) > data_discs /\ env.volumes = parity_discs) =>
                   CountKind(media[k].files, "vol") = slices_per_disc

Fits(files) ==
    CountKind(files, "dar") * slice_size_KiB + reserve_space_KiB
        <= settings.disc_size_KiB

\* C8: the slices in a data-column disc directory, and on a flushed data
\* disc, fit on a disc together with the reserved space.
C8_DataDirFitsOnDisc ==
    /\ \A d \in 1..data_discs : Fits(discs[d])
    /\ \A k \in 1..Len(media) : ColumnOf(k) <= data_discs => Fits(media[k].files)

\* a data disc flushed because one more slice would not have fitted
C8_Witness ==
    \E k \in 1..Len(media) :
        /\ ColumnOf(k) <= data_discs
        /\ media[k].happening # "last_slice"
        /\ (CountKind(media[k].files, "dar") + 1) * slice_size_KiB
               + reserve_space_KiB > settings.disc_size_KiB

\* C9: an _extract call for a slice n > 0 whose file is in the scratch
\* directory changes no file anywhere, resolves no disc and runs no
\* external command.
C9_RestoreIdempotent ==
    [][(nrequests' = nrequests + 1 /\ request'.number > 0
            /\ Dar(request'.number) \in root) =>
        /\ UNCHANGED <<root, discs, media, stats, pc>>
        /\ calls' = <<>>
        /\ staged' = <<>>]_vars

\* a request has found its slice in the scratch directory
C9_Witness ==
    /\ nrequests = 2
    /\ request.number > 0
    /\ request.present
    /\ Dar(request.number) \in root

\* C10: an _extract call for a slice n > 0 whose file is not in the
\* scratch directory resolves, for c = 0..D+K-1 in that order, the title of
\* set floor((n-1)/(D*S)) and column c, and no other; all D+K of them
\* unless the run failed; the files of every resolved disc are in the
\* scratch directory afterwards.
C10_StagesTheSetOfTheSlice ==
    (nrequests >= 1 /\ request.number > 0 /\ ~request.present) =>
        /\ Len(staged) <= total_set_count
        /\ pc # "failed" => Len(staged) = total_set_count
        /\ \A i \in 1..Len(staged) :
              staged[i] = <<((request.number - 1)
                               \div (data_discs * slices_per_disc)) + 1, i>>
        /\ \A i \in 1..Len(staged) :
              (i < Len(staged) \/ pc # "failed") =>
                  \E k \in Indices(media, staged[i]) :
                      media[k].files \subseteq root

\* a request has staged all columns of the second redundancy set
C10_Witness ==
    /\ pc = "created"
    /\ request.number > 0
    /\ ~request.present
    /\ Len(staged) = total_set_count
    /\ staged[1][1] = 2

RECURSIVE DigitsValue(_)
\* the number that a sequence of decimal digits denotes
DigitsValue(ds) ==
    IF ds = <<>> THEN 0
    ELSE 10 * DigitsValue(SubSeq(ds, 1, Len(ds) - 1)) + ds[Len(ds)]

\* ds is n written in decimal and zero-padded to w digits
WrittenAs(ds, n, w) ==
    /\ \A k \in 1..Len(ds) : ds[k] \in 0..9
    /\ DigitsValue(ds) = n
    /\ Len(ds) >= w
    /\ Len(ds) > w => ds[1] # 0

\* the hook call that ends with this step ran the encoder
EncoderCalled == pc = "hook" /\ calls' # <<>> /\ calls'[1].cmd = "parchive a"

\* C11: every encoder call made on the callback for slice `number` with
\* `count` pending slices is given the redundancy count K, the index name
\* base.<number-count+1>-<number>.par with both numbers zero-padded to the
\* digit width, and exactly the slices number-count+1 .. number as inputs;
\* count is D for every call except possibly the one for the final slice.
C11_EncoderArguments ==
    [][EncoderCalled =>
        LET number == created
            count == dars_on(root)
            call == calls'[1]
        IN  /\ call.n = parity_discs
            /\ Len(call.name) = 2
            /\ WrittenAs(call.name[1], number - count + 1, settings.digits)
            /\ WrittenAs(call.name[2], number, settings.digits)
            /\ Len(call.inputs) = count
            /\ Range(call.inputs) = (number - count + 1)..number
            /\ count = data_discs \/ happening = "last_slice"
            /\ \A k \in 2..Len(calls') : calls'[k].cmd # "parchive a"]_vars

\* the final slice 3 was encoded alone (D = 2) under the name
\* base.03-03.par
C11_Witness ==
    /\ pc = "created"
    /\ created = 3
    /\ data_discs = 2
    /\ calls # <<>>
    /\ calls[1].cmd = "parchive a"
    /\ calls[1].inputs = <<3>>
    /\ calls[1].name = <<<<0, 3>>, <<0, 3>>>>
    /\ calls[1].n = parity_discs

\* this step is a hook call that returned without an exception
HookReturned == pc = "hook" /\ pc' \in {"dar", "created"}

\* C12: a non-final callback that finds D pending slices while the data
\* directories are under capacity (one more slice each still leaves room
\* for a further one) makes exactly one external call, the encoder over
\* [number-D+1, number], flushes no directory and leaves no slice file in
\* the scratch root.
C12_EncodeWithoutFlush ==
    [][(/\ HookReturned
        /\ happening = "operating"
        /\ dars_on(root) = data_discs
        /\ (dars_on(discs[1]) + 2) * slice_size_KiB + reserve_space_KiB
               <= settings.disc_size_KiB)
       => /\ Len(calls') = 1
          /\ calls'[1].cmd = "parchive a"
          /\ calls'[1].lo = created - data_discs + 1
          /\ calls'[1].hi = created
          /\ Range(calls'[1].inputs) = (created - data_discs + 1)..created
          /\ media' = media
          /\ steps' = <<>>
          /\ \A d \in 1..total_set_count : discs'[d] # {}
          /\ dars_on(root') = 0]_vars

\* slices 1 and 2 (D = 2) were encoded and moved, nothing was flushed
C12_Witness ==
    /\ pc = "dar"
    /\ happening = "operating"
    /\ created = 2
    /\ data_discs = 2
    /\ Len(calls) = 1
    /\ calls[1].cmd = "parchive a"
    /\ calls[1].inputs = <<1, 2>>
    /\ media = <<>>
    /\ dars_on(discs[1]) = 1
    /\ dars_on(discs[2]) = 1
    /\ dars_on(root) = 0

\* the steps of a flush of all directories, one directory after the other
FlushSteps(whats) ==
    [k \in 1..(total_set_count * Len(whats)) |->
        Step(whats[((k - 1) % Len(whats)) + 1], ((k - 1) \div Len(whats)) + 1)]

\* the final callback for slice `created` with c pending slices encoded
\* them and flushed all D+K directories in column order under the titles
\* of set floor((created-1)/(D*S)) + 1
FinalFlushDone(c) ==
    LET number == created
        s == ((number - 1) \div (data_discs * slices_per_disc)) + 1
    IN  /\ c \in 1..data_discs
        /\ calls' # <<>>
        /\ calls'[1].cmd = "parchive a"
        /\ calls'[1].n = parity_discs
        /\ calls'[1].lo = number - c + 1
        /\ calls'[1].hi = number
        /\ Range(calls'[1].inputs) = (number - c + 1)..number
        /\ Len(media') = Len(media) + total_set_count
        /\ \A i \in 1..total_set_count :
               /\ media'[Len(media) + i].title = <<s, i>>
               /\ discs[i] \subseteq media'[Len(media) + i].files
               /\ discs'[i] = {}

\* the flush made one media writer call per directory, in column order,
\* each after the operator's confirmation and before the directory was
\* cleared
FinalFlushBurned ==
    LET s == ((created - 1) \div (data_discs * slices_per_disc)) + 1
    IN  /\ Len(calls') = 1 + total_set_count
        /\ \A i \in 1..total_set_count :
               /\ calls'[1 + i].cmd = "growisofs"
               /\ calls'[1 + i].title = <<s, i>>
        /\ steps' = FlushSteps(<<"wait", "burn", "unlink">>)

\* C13 as stated: on the final slice with c pending slices the callback
\* makes one encoder call over [number-c+1, number] with K and then
\* flushes all D+K directories in column order under the titles of set
\* floor((number-1)/(D*S))+1, 1 + (D+K) external calls in all, each
\* directory confirmed by the operator, written and cleared before the
\* next.
C13_FinalFlushAsStated ==
    [][(HookReturned /\ happening = "last_slice")
       => FinalFlushDone(dars_on(root)) /\ FinalFlushBurned]_vars

\* C13, amended: that holds when burning is enabled; in a dry run the
\* encoder call is the only external call, the operator is not asked, and
\* each directory is moved to the folder of its title and cleared before
\* the next.
C13_FinalFlush ==
    [][(pc = "hook" /\ pc' # "hook" /\ happening = "last_slice")
       => IF settings.actually_burn
          THEN HookReturned
                  => FinalFlushDone(dars_on(root)) /\ FinalFlushBurned
          ELSE /\ Len(calls') = 1
               /\ calls'[1].cmd = "parchive a"
               /\ \A k \in 1..Len(steps') : steps'[k].what # "wait"
               /\ HookReturned =>
                      /\ FinalFlushDone(dars_on(root))
                      /\ steps' = FlushSteps(<<"burn", "unlink">>)]_vars

\* burning: the final slice 4 = D*S (D = 2, S = 2) was encoded with slice
\* 3 and the three discs of set 1 were burned
C13_Witness ==
    /\ pc = "created"
    /\ settings.actually_burn
    /\ created = 4
    /\ data_discs = 2 /\ parity_discs = 1 /\ slices_per_disc = 2
    /\ Len(calls) = 4
    /\ calls[1].inputs = <<3, 4>>
    /\ calls[4].cmd = "growisofs"
    /\ calls[4].title = <<1, 3>>
    /\ Len(steps) = 9
    /\ Len(media) = 3

\* this step is an _extract call
Requested == nrequests' = nrequests + 1

\* C14: a restore request with slice number 0 stages the last (possibly
\* partial) redundancy set of the backup, found by directory convention;
\* a request for the final slice number M right after it finds the slice
\* present and does no staging and no tool call.
C14_SentinelThenFinal ==
    [][/\ (Requested /\ request'.last)
          => /\ pc' = "created"
             /\ staged' = [i \in 1..total_set_count |->
                              <<set_number_of(created) + 1, i>>]
             /\ Dar(created) \in root'
       /\ (Requested /\ request.last /\ request'.number = created)
          => /\ request'.present
             /\ calls' = <<>>
             /\ staged' = <<>>
             /\ root' = root
             /\ pc' = "created"]_vars

\* C15: a non-final callback with fewer than D pending slices changes
\* nothing in the scratch area and invokes no external tool, whatever
\* callbacks came before it.
C15_NothingBelowD ==
    [][(/\ pc = "hook"
        /\ pc' # "hook"
        /\ happening = "operating"
        /\ dars_on(root) < data_discs)
       => /\ root' = root
          /\ discs' = discs
          /\ media' = media
          /\ calls' = <<>>
          /\ steps' = <<>>
          /\ pc' = "dar"]_vars

\* slice 3 is waiting alone in the cwd (D = 2) after a callback that ran
\* nothing, while slices 1 and 2 are in the disc directories
C15_Witness ==
    /\ pc = "dar"
    /\ happening = "operating"
    /\ data_discs = 2
    /\ created = 3
    /\ dars_on(root) = 1
    /\ Dar(3) \in root
    /\ calls = <<>>
    /\ Dar(1) \in discs[1]
    /\ Dar(2) \in discs[2]

\* n as exactly w decimal digits
FixedDigits(n, w) == [k \in 1..w |-> 48 + ((n \div (10 ^ (w - k))) % 10)]

\* the 1-based sets s with (s-1)*D*S < n <= s*D*S
SetsOfSlice(n) ==
    LET ds == data_discs * slices_per_disc
    IN  {s \in {n \div ds, (n \div ds) + 1} : (s - 1) * ds < n /\ n <= s * ds}

\* a title was computed for a slice number and a column
TitledForSlice == last_title.number # 0

\* C16 as stated: for every D, K, S >= 1, every set s, every slice n with
\* (s-1)*D*S < n <= s*D*S and every column c in 0..D+K-1, the title
\* computed for (n, c) is base + '-' + s as 4 digits + '-' + (c+1) as 3
\* digits.
C16_TitleAsStated ==
    TitledForSlice =>
        \A s \in SetsOfSlice(last_title.number) :
            last_title.text =
                basename \o <<Dash>> \o FixedDigits(s, 4)
                \o <<Dash>> \o FixedDigits(last_title.disc_in_set_number_zb + 1, 3)

\* the parts of a title string after the first p characters: '-', a run
\* of digits, '-', a run of digits
TitleFields(text, p) ==
    LET dashes == {k \in (p + 2)..Len(text) : text[k] = Dash}
        k == CHOOSE x \in dashes : TRUE
    IN  IF Len(text) < p + 1 \/ text[p + 1] # Dash \/ Cardinality(dashes) # 1
        THEN <<>>
        ELSE <<[i \in 1..(k - p - 2) |-> text[p + 1 + i] - 48],
               [i \in 1..(Len(text) - k) |-> text[k + i] - 48]>>

\* C16, amended: the title computed for (n, c) is the first 23 characters
\* of base + '-' + s zero-padded to at least 4 digits + '-' + (c+1)
\* zero-padded to at least 3 digits; it depends only on the set of the
\* slice and on the column.
C16_Title ==
    TitledForSlice =>
        \A s \in SetsOfSlice(last_title.number) :
            LET p == IF Len(basename) < 23 THEN Len(basename) ELSE 23
                fields == TitleFields(last_title.text, p)
            IN  /\ \A k \in 1..p : last_title.text[k] = basename[k]
                /\ Len(fields) = 2
                /\ WrittenAs(fields[1], s, 4)
                /\ WrittenAs(fields[2],
                             last_title.disc_in_set_number_zb + 1, 3)

\* base name of 24 characters, D = 2, S = 2: the title of the first slice
\* of set 2 for the last column, "<23 characters>-0002-00<D+K>"
C16_Witness ==
    /\ TitledForSlice
    /\ Len(basename) = 24
    /\ data_discs = 2 /\ slices_per_disc = 2
    /\ last_title.number = 5
    /\ last_title.disc_in_set_number_zb = total_set_count - 1
    /\ Len(last_title.text) = 32
    /\ SubSeq(last_title.text, 24, 29) = <<45, 48, 48, 48, 50, 45>>

\* C17: a disc title is at most 32 characters long for every base name,
\* set index and column, and for a fixed base name distinct (set, column)
\* pairs give distinct titles.
C17_TitleFitsAndDistinct ==
    last_title # NoTitle =>
        /\ Len(last_title.text) <= 32
        /\ \A s \in TitleSetNumbers, d \in TitleDiscNumbers :
               <<s, d>> # <<last_title.set_number_zb,
                            last_title.disc_in_set_number_zb>>
               => disc_title_text(basename, s, d) # last_title.text

\* the index files among the files
IndexFiles(files) == {f \in files : f.kind = "par"}

\* the files hold the index file of every slice and every volume among
\* them
HoldsOwnIndexFiles(files) ==
    \A g \in files :
        /\ g.kind = "vol" => Par(g.lo, g.hi) \in files
        /\ g.kind = "dar" =>
               \E f \in files : f.kind = "par" /\ f.lo <= g.lo /\ g.lo <= f.hi

\* C18: on every flushed disc slices and volumes are mutually exclusive
\* (a disc of column 1..D holds no volume, a disc of column D+1..D+K no
\* slice), and every flushed disc holds a README, a copy of the program
\* and the index file of every file-set of its set encoded so far.
C18_FlushedDiscContents ==
    \A k \in 1..Len(media) :
        LET files == media[k].files
        IN  /\ ColumnOf(k) <= data_discs => CountKind(files, "vol") = 0
            /\ ColumnOf(k) > data_discs => CountKind(files, "dar") = 0
            /\ Readme \in files
            /\ Program \in files
            \* the index files of its own slices or volumes, and the same
            \* index files as the first disc of its flush: those of every
            \* file-set flushed with it
            /\ HoldsOwnIndexFiles(files)
            /\ IndexFiles(files) = IndexFiles(media[k - ColumnOf(k) + 1].files)
            /\ IndexFiles(files) # {}

\* a flushed set of D = 2 data discs and a parity disc with two file-sets,
\* whose three discs each hold both index files
C18_Witness ==
    /\ Len(media) >= 3
    /\ data_discs = 2
    /\ parity_discs = 1
    /\ CountKind(media[1].files, "dar") = 2
    /\ CountKind(media[3].files, "vol") >= 2
    /\ \A k \in 1..3 : {Par(1, 2), Par(3, 4)} \subseteq media[k].files

\* the slice files in a directory
SlicesIn(dir) == {f \in dir : f.kind = "dar"}

\* C19: if the encoder exits nonzero during a callback, the callback
\* aborts and is not retried: nothing is moved into any disc directory, no
\* index file, README or program copy is placed, nothing is flushed or
\* cleared, and the pending slices stay in the scratch root.
C19_EncoderFailureAborts ==
    [][(EncoderCalled /\ calls'[1].exit # 0)
       => /\ pc' = "failed"
          /\ Len(calls') = 1
          /\ discs' = discs
          /\ media' = media
          /\ steps' = <<>>
          /\ moves' = moves
          /\ SlicesIn(root') = SlicesIn(root)
          /\ SlicesIn(root) # {}]_vars

\* parchive failed on slices 3 and 4 (D = 2): they are still in the cwd,
\* slices 1 and 2 still in the disc directories, nothing was flushed
C19_Witness ==
    /\ pc = "failed"
    /\ data_discs = 2
    /\ created = 4
    /\ Len(calls) = 1
    /\ calls[1].cmd = "parchive a"
    /\ calls[1].exit # 0
    /\ SlicesIn(root) = {Dar(3), Dar(4)}
    /\ Dar(1) \in discs[1]
    /\ Par(3, 4) \notin discs[1]
    /\ media = <<>>

\* the media writer calls of the hook call that ends with this step
WriterCalls == {k \in 1..Len(calls') : calls'[k].cmd = "growisofs"}

\* the hook call that ends with this step ran a media writer that failed
WriterFailed == pc = "hook" /\ \E k \in WriterCalls : calls'[k].exit # 0

\* C20: during a flush a directory is emptied only after its own write
\* succeeded: if the media writer fails for column i, the run aborts with
\* directories i .. D+K uncleared and no further write attempted; the
\* contents of a directory are never deleted before they were written.
C20_ClearedOnlyAfterWritten ==
    [][/\ WriterFailed =>
           LET k == CHOOSE x \in WriterCalls : calls'[x].exit # 0
               i == calls'[k].title[2]
           IN  /\ pc' = "failed"
               /\ k = Len(calls')
               /\ Cardinality(WriterCalls) = i
               /\ Len(media') = Len(media) + i - 1
               /\ \A d \in i..total_set_count :
                      /\ discs'[d] # {}
                      /\ discs[d] \subseteq discs'[d]
                      /\ \A j \in 1..Len(steps') :
                             steps'[j].disc = d
                                 => steps'[j].what \notin {"burn", "unlink"}
               /\ \A d \in 1..(i - 1) :
                      /\ discs'[d] = {}
                      /\ discs[d] \subseteq media'[Len(media) + d].files
       /\ pc = "hook" =>
           \A d \in 1..total_set_count : \A f \in discs[d] :
               \/ f \in discs'[d]
               \/ \E m \in (Len(media) + 1)..Len(media') :
                      f \in media'[m].files]_vars

\* growisofs failed for the second of three directories (D = 2, K = 1):
\* the first was burned and emptied, the second and third still hold
\* their files
C20_Witness ==
    /\ pc = "failed"
    /\ data_discs = 2
    /\ parity_discs = 1
    /\ Len(calls) = 3
    /\ calls[3].cmd = "growisofs"
    /\ calls[3].exit # 0
    /\ calls[3].title[2] = 2
    /\ Len(media) = 1
    /\ discs[1] = {}
    /\ SlicesIn(discs[2]) # {}
    /\ CountKind(discs[3], "vol") >= 1

\* the outcome of a hook run that an external tool ended by exiting with
\* a nonzero status
ToolFailure == "CalledProcessError"

\* C21 (as claimed): a request whose decoder run reports the set as
\* unrecoverable ends the restore, with an outcome other than the one of an
\* external tool that fails.
C21_UnrecoverableSurfacedDistinctly ==
    request.decoder = "unrecoverable" =>
        pc = "failed" /\ raised # ToolFailure

\* what does hold: a decoder run that is not a repair, whatever its reason,
\* ends the restore as the failure of a tool, after which no tool is run
C21_DecoderFailureAborts ==
    request.decoder \in {"unrecoverable", "failed"} =>
        /\ pc = "failed"
        /\ raised = ToolFailure
        /\ calls[Len(calls)].cmd = "parchive r"
        /\ calls[Len(calls)].exit # 0

\* an instance started for a backup (dar -c), for a restore (dar -x)
IsBackup(i) == main[i].args[1] = "-c"
IsRestore(i) == main[i].args[1] = "-x"

\* ensure_scratch raised in instance i
SetupFailed(i) == main[i].pc = "failed" /\ main[i].ran = <<>>

\* ensure_scratch returned in instance i
SetupComplete(i) ==
    /\ main[i].pc \notin {"ensure_scratch", "mkdir_scratch", "mkdir_disc",
                          "ensure_free_space", "copy_program"}
    /\ ~SetupFailed(i)

\* the scratch root was there with something other than an empty directory
FoundForeign ==
    \/ scratch.found.kind = "file"
    \/ scratch.found.kind = "dir" /\ scratch.found.entries # {}

\* C22 (as claimed): when the scratch root is there already as a
\* non-directory or as a directory that holds anything, no backup instance
\* completes the scratch setup or runs a tool.
C22_ForeignContentRejected ==
    \A i \in Instances :
        (IsBackup(i) /\ FoundForeign) =>
            ~SetupComplete(i) /\ main[i].ran = <<>>

\* what does hold: the setup is refused for a non-directory and for a
\* directory that holds one of the disc directories it is about to make
C22_RejectedAsCoded ==
    \A i \in Instances :
        (\/ scratch.found.kind = "file"
         \/ \E d \in 1..total_set_count :
                disc_dir(d) \in scratch.found.entries) =>
            ~SetupComplete(i) /\ main[i].ran = <<>>

\* the free space of the scratch filesystem is below (D+K) * disc_size
FreeBelow == scratch.free_KiB < total_set_count * disc_size_MiB * 1024

NotEnough(i) == main[i].raised = "NotEnoughScratchSpace"

\* C23 (as claimed): a backup start, once its scratch setup has ended,
\* has failed with the not-enough-scratch-space error exactly when the
\* free space is below (D+K) * disc_size, and then it has run no tool.
C23_AsStated ==
    \A i \in Instances :
        (IsBackup(i) /\ (SetupFailed(i) \/ SetupComplete(i))) =>
            /\ NotEnough(i) <=> FreeBelow
            /\ NotEnough(i) => main[i].ran = <<>>

\* ensure_scratch of instance i has made all its disc directories and has
\* looked at the free space
PastFreeSpaceCheck(i) ==
    /\ main[i].disc = total_set_count + 1
    /\ main[i].pc # "ensure_free_space"

\* C23: a backup start whose scratch setup gets as far as the free-space
\* check (the scratch root is no non-directory and every disc directory
\* could be made) fails with the not-enough-scratch-space error exactly
\* when the free space is below (D+K) * disc_size; the error is raised in
\* no other case, and a backup start with less free space runs no tool.
C23_FreeSpaceCheck ==
    \A i \in Instances :
        IsBackup(i) =>
            /\ PastFreeSpaceCheck(i) => (NotEnough(i) <=> FreeBelow)
            /\ NotEnough(i) => PastFreeSpaceCheck(i)
            /\ FreeBelow => main[i].ran = <<>>

\* a backup start refused one KiB below the needed space
C23_Witness ==
    \E i \in Instances :
        /\ IsBackup(i)
        /\ NotEnough(i)
        /\ scratch.free_KiB = total_set_count * disc_size_MiB * 1024 - 1
        /\ disc_dir(total_set_count) \in root

\* C24 (as claimed): a restore run is not ended by the free-space check,
\* and it is not ended by finding the disc directories of the scratch area
\* it is to reuse.
C24_RestoreSkipsSetupChecks ==
    \A i \in Instances :
        IsRestore(i) =>
            /\ ~NotEnough(i)
            /\ disc_dir(1) \in scratch.found.entries =>
                   main[i].raised # "FileExistsError"

\* C25: of two backup instances started on one scratch root at most one
\* completes the scratch setup, whatever the order of their steps; once
\* both setups have ended, one of them has failed with an exception and
\* has run no tool.
C25_OneInstancePerScratch ==
    \A i \in Instances : \A j \in Instances \ {i} :
        (IsBackup(i) /\ IsBackup(j)) =>
            /\ ~(SetupComplete(i) /\ SetupComplete(j))
            /\ main[i].ran = <<>> \/ main[j].ran = <<>>
            /\ (SetupComplete(i) /\ main[j].pc = "failed") =>
                   main[j].raised # "" /\ main[j].ran = <<>>

\* two backup instances that both found no scratch root: one has run dar,
\* the other was stopped by a directory the first had made
C25_Witness ==
    /\ scratch.found.kind = "absent"
    /\ IsBackup(1) /\ IsBackup(2)
    /\ main[2].ran # <<>>
    /\ SetupFailed(1)
    /\ main[1].raised = "FileExistsError"
    /\ main[1].disc = 1

\* C30: dar() runs one command: dar with the arguments of the caller
\* followed by -B <scratch>/darrc, once that file is written and with the
\* scratch root as working directory; when main has ended, whether dar
\* failed or not, the working directory is the one it was started in.
C30_DarInvocation ==
    \A i \in Instances :
        /\ Len(main[i].ran) <= 1
        /\ \A k \in DOMAIN main[i].ran :
              /\ main[i].ran[k].cmd = "dar"
              /\ main[i].ran[k].args =
                     main[i].args \o <<"-B", <<scratch_dir, "darrc">>>>
              /\ main[i].ran[k].cwd = scratch_dir
              /\ main[i].ran[k].darrc
        /\ main[i].pc = "done" => Len(main[i].ran) = 1
        /\ main[i].pc \in {"done", "failed"} => main[i].cwd = StartDirs[i]

\* an instance whose dar failed, back in the directory it started in
C30_Witness ==
    \E i \in Instances :
        /\ main[i].pc = "failed"
        /\ main[i].raised = "CalledProcessError"
        /\ Len(main[i].ran) = 1
        /\ main[i].ran[1].exit # 0
        /\ main[i].cwd = StartDirs[i]

\* this step is a hook call of a dry run that set about flushing the disc
\* directories
DryRunFlush ==
    /\ pc = "hook"
    /\ pc' # "hook"
    /\ ~settings.actually_burn
    /\ steps' # <<>> \/ raised' = "FileExistsError"

\* file f was encoded or written by the encoder call of this step, or is
\* one of the files copied to every disc directory with it
DistributedNow(f) ==
    /\ calls' # <<>>
    /\ calls'[1].cmd = "parchive a"
    /\ f.kind = "dar" => f.lo \in Range(calls'[1].inputs)
    /\ f.kind \in {"par", "vol"} =>
           f.lo = calls'[1].lo /\ f.hi = calls'[1].hi

\* column c went to a new folder named by the title of the set of slice
\* `created` and column c, with all the files of the disc directory and
\* no others, and the disc directory is empty
FlushedToFolder(c) ==
    LET folder == media'[Len(media) + c]
    IN  /\ folder.title = disc_title_for_slice_and_disc(created, c - 1)
        /\ folder.title \notin Titles(media)
        /\ TitleText(folder.title) =
               disc_title_text(basename, set_number_of(created), c - 1)
        /\ discs[c] \subseteq folder.files
        /\ \A f \in folder.files \ discs[c] : DistributedNow(f)
        /\ discs'[c] = {}

\* C26 (as claimed): a dry-run flush moves every disc directory to the
\* folder of its title, which then holds exactly the files of the
\* directory, and leaves the directory empty; no media writer is run and
\* the operator is not asked.
C26_DryRunFlushToFolders ==
    [][DryRunFlush =>
          /\ Len(media') = Len(media) + total_set_count
          /\ \A c \in 1..total_set_count : FlushedToFolder(c)
          /\ \A k \in 1..Len(calls') : calls'[k].cmd # "growisofs"
          /\ \A k \in 1..Len(steps') : steps'[k].what # "wait"]_vars

\* what does hold: every folder a dry-run flush makes is as claimed, and
\* the flush is complete unless a folder of a title is there already
C26_DryRunFlushUnlessExists ==
    [][DryRunFlush =>
          /\ \A c \in 1..(Len(media') - Len(media)) : FlushedToFolder(c)
          /\ \A k \in 1..Len(calls') : calls'[k].cmd # "growisofs"
          /\ \A k \in 1..Len(steps') : steps'[k].what # "wait"
          /\ \/ Len(media') = Len(media) + total_set_count
             \/ /\ raised' = "FileExistsError"
                /\ disc_title_for_slice_and_disc(
                       created, Len(media') - Len(media)) \in Titles(media)
                /\ \E k \in 1..Len(media) :
                       media[k].number % (data_discs * slices_per_disc) # 0
                       ]_vars

\* for every folder a dry-run backup made, the title of its set and column
\* resolves to it, and the columns of the last set resolve by position to
\* the folders of the last flush
ResolvesFlushedFolders ==
    /\ \A k \in 1..Len(media) :
          disc_dir_for(media[k].title[1] - 1, media[k].title[2] - 1,
                       FALSE, TRUE) = k
    /\ \A c \in 1..total_set_count :
          disc_dir_for(0, c - 1, TRUE, TRUE)
              = Len(media) - total_set_count + c

\* C27 (as claimed): after a dry-run backup, whatever the length of the
\* base name, the directory the restore resolves for a column, by title or
\* by position in the last set, is the folder the flush of that set and
\* column made.
C27_ResolvesFlushedFolder ==
    (BackupComplete /\ ~settings.actually_burn) => ResolvesFlushedFolders

\* what does hold: the same for base names of at most 23 characters
C27_ResolvesUpTo23Characters ==
    (BackupComplete /\ ~settings.actually_burn /\ Len(basename) <= 23)
        => ResolvesFlushedFolders

\* C28: an _extract call leaves every flushed disc and folder with the
\* files it had, each with the data it had: what it stages are files of
\* the scratch root with data of their own, and what the decoder then
\* overwrites or rebuilds is in the scratch root.
C28_StagingOnlyReads ==
    [][Requested => media' = media]_vars

\* a request that staged the D+K discs of a set and had them repaired:
\* the files are in the scratch root and on the discs
C28_Witness ==
    /\ nrequests >= 1
    /\ request.decoder = "repaired"
    /\ Len(staged) = total_set_count
    /\ data_discs >= 2
    /\ \A k \in 1..Len(media) :
          media[k].title \in Range(staged) =>
              media[k].files # {} /\ media[k].files \subseteq root

\* dar has asked for 0, M and 1..M; the backup has more than one
\* redundancy set
WholeRestoreDone ==
    /\ pc = "created"
    /\ nrequests = created + 2
    /\ created > data_discs * slices_per_disc

\* the number of redundancy sets of M slices, and of file-sets in the last
NumberOfSets == CeilDiv(created, data_discs * slices_per_disc)

FileSetsOfLastSet ==
    CeilDiv(created - (NumberOfSets - 1) * data_discs * slices_per_disc,
            data_discs)

\* the stagings of the D+K discs of set s
StagingsOf(s) ==
    {k \in 1..Len(stagings) :
        stagings[k].titles = [c \in 1..total_set_count |-> <<s, c>>]}

\* in staging k the decoder was run once for each index file staged
DecodedEachIndexFileOnce(k) ==
    LET pars == {f \in stagings[k].root : f.kind = "par"}
        runs == stagings[k].calls
    IN  /\ Len(runs) = Cardinality(pars)
        /\ \A f \in pars :
              \E j \in 1..Len(runs) :
                  /\ runs[j].cmd = "parchive r"
                  /\ runs[j].lo = f.lo
                  /\ runs[j].hi = f.hi

WholeRestoreAsClaimed ==
    /\ Len(stagings) = NumberOfSets + 1
    /\ Cardinality(StagingsOf(NumberOfSets)) = 2
    /\ 1 \in StagingsOf(NumberOfSets)
    /\ \A s \in 1..(NumberOfSets - 1) : Cardinality(StagingsOf(s)) = 1
    /\ \A k \in 1..Len(stagings) : DecodedEachIndexFileOnce(k)
    /\ stats.parchive_r = CeilDiv(created, data_discs) + FileSetsOfLastSet

\* C29 (as claimed): when dar has asked for slice 0, for M and for 1..M in
\* order, over a backup of more than one redundancy set, the last set was
\* staged twice, the first time for slice 0, every other set once, the
\* decoder was run once per index file of each staging, and
\* ceil(M/D) + (file-sets of the last set) times in all.
C29_WholeRestore ==
    WholeRestoreDone => WholeRestoreAsClaimed

\* the backup flushed on every multiple of D*S slices and on the last
\* slice, and at no other slice
FlushedAtSetBoundaries == C7_FlushAtSetBoundary /\ C2_FlushCount

\* what does hold: the same when the backup flushed on the multiples of
\* D*S slices and on the last slice
C29_WholeRestoreAtSetBoundaries ==
    (WholeRestoreDone /\ FlushedAtSetBoundaries) => WholeRestoreAsClaimed

\* such a restore of two sets of two file-sets each
C29_SetBoundariesReached ==
    /\ WholeRestoreDone
    /\ FlushedAtSetBoundaries
    /\ NumberOfSets = 2
    /\ FileSetsOfLastSet = 2
    /\ stats.parchive_r = 6

\* C31: a callback that has to encode (D slices pending, or the final
\* callback) while no slice file is in the scratch root ends with the
\* ValueError of make_redundancy_files: it runs no tool, moves nothing
\* and flushes nothing; and no encoder call is ever made without an input
\* slice.
C31_NoEncoderCallWithoutInput ==
    [][(pc = "hook" /\ pc' # "hook") =>
          /\ \A k \in 1..Len(calls') :
                calls'[k].cmd = "parchive a" => Len(calls'[k].inputs) >= 1
          /\ (ShouldEncode(dars_on(root), happening) /\ dars_on(root) = 0)
                => /\ raised' = "ValueError"
                   /\ pc' = "failed"
                   /\ calls' = <<>>
                   /\ steps' = <<>>
                   /\ UNCHANGED <<root, discs, media, moves, encoded,
                                  stats>>]_vars

\* a final callback that found no slice in the scratch root, after slices
\* 1 and 2 (D = 2) had been encoded and moved to the disc directories
C31_Witness ==
    /\ raised = "ValueError"
    /\ pc = "failed"
    /\ happening = "last_slice"
    /\ data_discs = 2
    /\ created = 2
    /\ dars_on(root) = 0
    /\ dars_on(discs[1]) = 1
    /\ media = <<>>

\* the encoder overhead allowed for per slice, in whole KiB: the header
\* bytes (96 + 120 * D) * (1 + 1/D), rounded up
OverheadRoundedUpKiB ==
    CHOOSE k \in 0..(1 + data_discs) :
        /\ k * 1024 * data_discs >= (96 + 120 * data_discs) * (data_discs + 1)
        /\ (k - 1) * 1024 * data_discs
               < (96 + 120 * data_discs) * (data_discs + 1)

\* S slices of s KiB, each with its encoder overhead, and the reserve fit
\* on one disc
SlicesFit(s) ==
    slices_per_disc * (s + OverheadRoundedUpKiB) + reserve_space_KiB
        <= settings.disc_size_KiB

SliceSizeRead == pc = "settings" /\ "slice_size_KiB" \in derived.read

\* C32: for every geometry with D, S >= 1 and a disc larger than the
\* reserve, the slice size is the largest whole number of KiB s such that
\* S slices of s KiB plus the reserve plus the rounded-up encoder overhead
\* of each slice fit on the disc
C32_LargestSliceSizeThatFits ==
    (SliceSizeRead /\ settings.disc_size_KiB > reserve_space_KiB)
        => /\ derived.slice_size_KiB >= 0
           /\ SlicesFit(derived.slice_size_KiB)
           /\ ~SlicesFit(derived.slice_size_KiB + 1)

\* some slice size fits on the disc at all
SomeSliceSizeFits == SlicesFit(0)

\* C32, what the code computes: the largest size that fits wherever one
\* fits; and the budget is never exceeded
C32_LargestWhereOneFits ==
    (SliceSizeRead /\ settings.disc_size_KiB > reserve_space_KiB)
        => /\ SlicesFit(derived.slice_size_KiB)
           /\ ~SlicesFit(derived.slice_size_KiB + 1)
           /\ SomeSliceSizeFits <=> derived.slice_size_KiB >= 0

C32_NoSizeFits ==
    /\ SliceSizeRead
    /\ settings.disc_size_KiB > reserve_space_KiB
    /\ ~SomeSliceSizeFits
    /\ derived.slice_size_KiB = -1

\* the number of decimal digits of n >= 1
DecimalDigitsOf(n) == CHOOSE k \in 1..9 : 10^(k - 1) <= n /\ n < 10^k

DigitsRead == pc = "settings" /\ "digits" \in derived.read

DefaultGeometry ==
    /\ settings.expected_data_size_GiB = 500
    /\ slices_per_disc = 500
    /\ disc_size_MiB = 23841

\* C33: with no digit width configured, the digits are one more than the
\* number of decimal digits of floor(expected_data_size_GiB * 1024 * S /
\* disc_size_MiB + 1), which is 6 for the default geometry; a configured
\* width is returned unchanged and never recomputed
C33_Digits ==
    /\ (DigitsRead /\ derived.configured = 0)
           => /\ derived.digits
                     = 1 + DecimalDigitsOf(
                               (settings.expected_data_size_GiB * 1024
                                    * slices_per_disc) \div disc_size_MiB + 1)
              /\ DefaultGeometry => derived.digits = 6
    /\ (DigitsRead /\ derived.configured # 0)
           => derived.digits = derived.configured
    /\ (pc = "settings" /\ derived.configured # 0)
           => derived._digits = derived.configured

C33_Witness ==
    /\ DigitsRead
    /\ derived.configured = 0
    /\ DefaultGeometry
    /\ derived.digits = 6
    /\ derived._digits = 6

\* the data columns (one-based) slice n lies in: its disc directory, or
\* the column of the flushed disc that holds it
DataColumnsOf(n) ==
    {d \in 1..total_set_count : Dar(n) \in discs[d]}
        \cup {media[k].title[2] : k \in DiscsHolding(Dar(n))}

EncoderCalls == {k \in 1..Len(calls) : calls[k].cmd = "parchive a"}

\* the inputs of every encoder call of the last callback are in increasing
\* slice-number order, and input i went to data column i
EncodedInNumberOrder ==
    \A k \in EncoderCalls :
        LET inputs == calls[k].inputs IN
        /\ \A i \in 1..(Len(inputs) - 1) : inputs[i] < inputs[i + 1]
        /\ calls[k].exit = 0 =>
               \A i \in 1..Len(inputs) : DataColumnsOf(inputs[i]) = {i}

\* C34: whatever the digit width, every encoder call receives its input
\* slices in increasing slice-number order, and the round-robin puts them
\* into the data columns 0, 1, ... in that order
C34_SlicesInNumberOrder ==
    pc \in {"dar", "created", "failed"} => EncodedInNumberOrder

\* C34, what the code does: the order is that of the slice numbers as long
\* as they fit the digit width
C34_InOrderWithinDigitWidth ==
    (pc \in {"dar", "created", "failed"} /\ created < 10^settings.digits)
        => EncodedInNumberOrder

\* slice 10 was encoded before slice 9 and lies in the first column
C34_OutgrownDigitWidth ==
    /\ pc \in {"dar", "created"}
    /\ settings.digits = 1
    /\ data_discs = 2
    /\ \E k \in EncoderCalls : calls[k].inputs = <<10, 9>>
    /\ DataColumnsOf(10) = {1}
    /\ DataColumnsOf(9) = {2}

\* the last request staged a redundancy set
StagedASet == nrequests >= 1 /\ ~request.present

CopiesOfStaging == {i \in 1..Len(request.log) : request.log[i].op = "copy"}
DecoderCallsOfStaging ==
    {i \in 1..Len(request.log) : request.log[i].op = "parchive r"}

\* the index files, by their numbers, on the discs the staging copied
IndexFilesStaged ==
    UNION {{<<f.lo, f.hi>> : f \in {g \in media[request.log[i].disc].files :
                                      g.kind = "par"}} :
           i \in CopiesOfStaging}

\* C35: in one staging the decoder is run exactly once per distinct index
\* file name found on the D+K staged discs, in sorted name order, and only
\* after all D+K columns were copied: no decoder call lies between two
\* copies. (A staging that a failing decoder call ends has run it on the
\* names up to that one.)
C35_DecodeOncePerIndexFileAfterCopying ==
    StagedASet =>
        /\ \A i \in CopiesOfStaging : \A j \in DecoderCallsOfStaging : i < j
        /\ DecoderCallsOfStaging # {}
               => Cardinality(CopiesOfStaging) = total_set_count
        /\ \A i, j \in DecoderCallsOfStaging :
               i < j => StrLess(number_format(request.log[i].par[1]),
                                number_format(request.log[j].par[1]))
        /\ {request.log[i].par : i \in DecoderCallsOfStaging}
               \subseteq IndexFilesStaged
        /\ pc = "created" =>
               /\ Cardinality(CopiesOfStaging) = total_set_count
               /\ {request.log[i].par : i \in DecoderCallsOfStaging}
                      = IndexFilesStaged
               /\ Cardinality(DecoderCallsOfStaging)
                      = Cardinality(IndexFilesStaged)
        /\ pc = "failed" =>
               \A p \in IndexFilesStaged : 
                   \A i \in DecoderCallsOfStaging :
                       StrLess(number_format(p[1]),
                               number_format(request.log[i].par[1]))
                           => \E j \in DecoderCallsOfStaging :
                                  request.log[j].par = p

\* a staging of three discs with two index files on each: three copies,
\* then two decoder calls
C35_Witness ==
    /\ StagedASet
    /\ pc = "created"
    /\ total_set_count = 3
    /\ Len(request.log) = 5
    /\ Cardinality(IndexFilesStaged) = 2
    /\ \A i \in 1..3 : request.log[i].op = "copy"
    /\ \A i \in 4..5 : request.log[i].op = "parchive r"

\* the flushed discs the last request copied
DiscsStaged == {request.log[i].disc : i \in CopiesOfStaging}

\* file f of the scratch root is a file of one of the flushed discs ks, or
\* a slice that the decoder rebuilt from an index file of theirs
OfStagedDiscs(f, ks) ==
    \/ \E k \in ks : f \in media[k].files
    \/ /\ f.kind = "dar"
       /\ \E k \in ks : \E p \in media[k].files :
              p.kind = "par" /\ p.lo <= f.lo /\ f.lo <= p.hi

\* C36: when a slice request returns, the slices, parity volumes and index
\* files of the scratch root all belong to one redundancy set, the one
\* staged last (a request that finds its slice leaves the scratch root as
\* it is); the clearing never deletes the program copy or the README
C36_OnlyLastStagedSetInScratch ==
    [][Requested =>
          /\ Program \in root => Program \in root'
          /\ Readme \in root => Readme \in root'
          /\ request'.present => root' = root
          /\ (~request'.present /\ pc' = "created") =>
                 /\ \A k1, k2 \in DiscsStaged' : SameFlush(k1, k2)
                 /\ \A f \in root' :
                        f.kind \in {"dar", "par", "vol"}
                            => OfStagedDiscs(f, DiscsStaged')]_vars

\* a second set was staged after another one: the scratch root holds the
\* program, the README and files of the second only
C36_Witness ==
    /\ nrequests = 2
    /\ StagedASet
    /\ pc = "created"
    /\ request.number > 0
    /\ stats.parchive_r > Len(calls)
    /\ Program \in root /\ Readme \in root
    /\ Dar(request.number) \in root
    /\ \E k \in 1..Len(media) : \E f \in media[k].files :
           f.kind = "dar" /\ f \notin root

\* the callback flushed a whole set
FlushedASet ==
    /\ pc = "hook"
    /\ pc' # "failed"
    /\ Len(media') = Len(media) + total_set_count

\* C37: after every flush all D+K disc directories still exist and are
\* empty, and directory c has served column c; no step of a backup run
\* removes or recreates a disc directory
C37_DiscDirectoriesStay ==
    [][/\ \A d \in 1..total_set_count :
              disc_dir(d) \in root => disc_dir(d) \in root'
       /\ \A i \in 1..Len(steps') :
              steps'[i].what \in {"wait", "burn", "unlink"}
       /\ FlushedASet =>
              \A c \in 1..total_set_count :
                  /\ disc_dir(c) \in root'
                  /\ discs'[c] = {}
                  /\ media'[Len(media) + c].title[2] = c
                  /\ discs[c] \subseteq media'[Len(media) + c].files]_vars

\* the directories always exist, from the setup of the scratch area on
C37_DiscDirectoriesExist ==
    \A d \in 1..total_set_count : disc_dir(d) \in root

\* a second set was flushed from the directories that served the first
C37_Witness ==
    /\ pc \in {"dar", "created"}
    /\ Len(media) = 2 * total_set_count
    /\ \A d \in 1..total_set_count :
           /\ disc_dir(d) \in root
           /\ discs[d] = {}
           /\ media[d].title[2] = d
           /\ media[total_set_count + d].title[2] = d
           /\ media[d].files # media[total_set_count + d].files

\* the flushed disc that is column c of the flush of flushed disc k
InFlushOf(k, c) == ((k - 1) \div total_set_count) * total_set_count + c

\* C38: in a flushed set the numbers of slices on the D data discs differ
\* by at most one, any surplus being on the lowest-numbered columns; with
\* K volumes per encoder call the K parity discs hold equal numbers of
\* volumes; and all D+K discs hold the same number of index files
C38_BalancedColumns ==
    \A k \in 1..Len(media) :
        LET c == ColumnOf(k)
            first == media[InFlushOf(k, 1)].files
        IN  /\ CountKind(media[k].files, "par") = CountKind(first, "par")
            /\ c <= data_discs =>
                   /\ CountKind(first, "dar") - CountKind(media[k].files, "dar")
                          \in {0, 1}
                   /\ c > 1 => CountKind(media[k - 1].files, "dar")
                                   >= CountKind(media[k].files, "dar")
            /\ (c > data_discs /\ env.volumes = parity_discs) =>
                   /\ CountKind(media[k].files, "vol")
                          = CountKind(media[InFlushOf(k, data_discs + 1)].files,
                                      "vol")
                   /\ CountKind(media[k].files, "vol")
                          = CountKind(first, "par")

\* a flushed set whose last file-set was undersized: the first data disc
\* holds one slice more than the second, two parity discs one volume per
\* index file each
C38_Witness ==
    /\ data_discs = 2 /\ parity_discs = 2 /\ env.volumes = 2
    /\ Len(media) >= 4
    /\ CountKind(media[1].files, "dar") = 2
    /\ CountKind(media[2].files, "dar") = 1
    /\ CountKind(media[3].files, "vol") = 2
    /\ CountKind(media[4].files, "vol") = 2
    /\ \A k \in 1..4 : CountKind(media[k].files, "par") = 2

\* the generator has returned or raised
Par2Ended == par2.pc \in {"done", "raised"}

\* C39: on every finite file, truncated ones, ones with garbage between
\* the packets and ones with a declared packet length below the 64 bytes
\* of the header included, every iteration of the loop advances the read
\* position, so that no packet is yielded twice (and the generator ends)
C39_NoPacketYieldedTwice ==
    par2.pc # "none" =>
        /\ \A i \in 1..(Len(par2.offsets) - 1) :
               par2.offsets[i] < par2.offsets[i + 1]
        /\ (par2.pc = "while" /\ Len(par2.x) > 0)
               => par2.tell > par2.start

\* C39, what the code does: a packet is yielded again exactly when its
\* declared length is 0, and then without end
C39_TwiceOnlyForLengthZero ==
    par2.pc # "none" =>
        /\ (par2.pc = "while" /\ Len(par2.x) > 0 /\ par2.length # 0)
               => par2.tell > par2.start
        /\ \A i \in 1..(Len(par2.offsets) - 1) :
               \/ par2.offsets[i] < par2.offsets[i + 1]
               \/ /\ par2.offsets[i] = par2.offsets[i + 1]
                  /\ par2.yielded[i][2] = 0
                  /\ par2.yielded[i + 1] = par2.yielded[i]

\* the packet at the beginning of the file, of declared length 0, has
\* been yielded as often as the consumer asked
C39_YieldedAgainAndAgain ==
    /\ par2.pc = "yielded"
    /\ Len(par2.yielded) = MaxYields
    /\ \A i \in 1..MaxYields : par2.offsets[i] = 0 /\ par2.yielded[i][2] = 0

====
